---- MODULE Spec2Model ----
(***************************************************************************)
(* Capture-to-normalized-endpoint pipeline of MockGen AI.                  *)
(*                                                                         *)
(*   - BrowserController (src/src/modules/browserController.ts): the       *)
(*     exchange filter, the block-API classifier and the capture session.  *)
(*   - DataProcessor (src/src/modules/aiGenerator.ts, lines 626-958): the  *)
(*     endpoint normalizer.                                                *)
(*                                                                         *)
(* JavaScript strings are modelled as sequences of symbols.  A symbol is   *)
(* an abstract character: a separator ("://", "/", "?", "#", "&", "=",     *)
(* ".", ":", " ") or a run of letters/digits ("api", "blocks", ...).       *)
(* String operations (includes, endsWith, toUpperCase, URL parsing) work   *)
(* symbol by symbol exactly as the JavaScript ones work character by       *)
(* character.                                                              *)
(***************************************************************************)
EXTENDS Integers, Sequences, FiniteSets, TLC

\* ------------------------------------------------------------------------
\* Bounds of the model
\* ------------------------------------------------------------------------
MaxResponses == 1      \* response events delivered to one controller
MaxCalls == 1          \* captureNetworkLogs calls on one controller
MaxCleanups == 1       \* public cleanup() calls that find something to close
MaxLogs == 3           \* length of the list given to processNetworkLogs
MaxCap == 2            \* largest maxApis option tried
MaxEndpoints == 2      \* length of the collection given to serializeForAI
MaxClock == 2          \* latest time of a serializeForAI call
MaxCliLogs == 2        \* exchanges a capture hands to a command-line run
MaxRetries == 3        \* largest maxRetries option of an AiGenerator
MaxAssigns == 2        \* assignments attempted through defaultConfig
MaxReuseCalls == 2     \* captureNetworkLogs calls on one reused controller
MaxDocApis == 3        \* length of the collection given to generateDocumentation

\* ------------------------------------------------------------------------
\* String primitives (String.prototype.*)
\* ------------------------------------------------------------------------
MinOf(S) == CHOOSE x \in S : \A y \in S : x <= y

\* s.startsWith(pat, i-1)
StartsWithAt(s, pat, i) ==
  /\ i >= 1
  /\ i + Len(pat) - 1 <= Len(s)
  /\ \A k \in 1..Len(pat) : s[i + k - 1] = pat[k]

\* s.includes(pat)
Includes(s, pat) == \E i \in 1..(Len(s) + 1) : StartsWithAt(s, pat, i)

\* s.endsWith(suf)
EndsWith(s, suf) ==
  /\ Len(suf) <= Len(s)
  /\ StartsWithAt(s, suf, Len(s) - Len(suf) + 1)

\* index of the first symbol of s at or after from that is in set, Len(s)+1 if none
FirstIndexOf(s, set, from) ==
  LET idx == {i \in from..Len(s) : s[i] \in set}
  IN IF idx = {} THEN Len(s) + 1 ELSE MinOf(idx)

UpperSym(c) ==
  CASE c = "get" -> "GET"
    [] c = "post" -> "POST"
    [] c = "api" -> "API"
    [] OTHER -> c

LowerSym(c) ==
  CASE c = "GET" -> "get"
    [] c = "POST" -> "post"
    [] c = "API" -> "api"
    [] OTHER -> c

\* s.toUpperCase(), s.toLowerCase()
ToUpperCase(s) == [i \in 1..Len(s) |-> UpperSym(s[i])]
ToLowerCase(s) == [i \in 1..Len(s) |-> LowerSym(s[i])]

\* s.split(sep): the pieces of s between occurrences of the symbol sep
RECURSIVE Split(_, _)
Split(s, sep) ==
  LET i == FirstIndexOf(s, {sep}, 1)
  IN IF i > Len(s) THEN <<s>>
     ELSE <<SubSeq(s, 1, i - 1)>> \o Split(SubSeq(s, i + 1, Len(s)), sep)

\* ------------------------------------------------------------------------
\* new URL(url) of the WHATWG URL API, for absolute special-scheme URLs.
\* ok = FALSE stands for the TypeError the constructor throws.
\* ------------------------------------------------------------------------
Schemes == {"https", "http"}
ForbiddenHostSyms == {" "}
PortSyms == {"3000"}

UrlThrow ==
  [ok |-> FALSE, hostname |-> <<>>, port |-> <<>>, pathname |-> <<>>,
   search |-> <<>>, hash |-> <<>>]

NewURL(u) ==
  IF ~(Len(u) >= 2 /\ u[1] \in Schemes /\ u[2] = "://") THEN UrlThrow
  ELSE
    LET aEnd   == FirstIndexOf(u, {"/", "?", "#"}, 3)
        auth   == SubSeq(u, 3, aEnd - 1)
        colon  == FirstIndexOf(auth, {":"}, 1)
        host   == SubSeq(auth, 1, colon - 1)
        port   == SubSeq(auth, colon + 1, Len(auth))
        qStart == FirstIndexOf(u, {"?", "#"}, aEnd)
        hStart == FirstIndexOf(u, {"#"}, aEnd)
        path   == SubSeq(u, aEnd, qStart - 1)
        query  == IF qStart <= Len(u) /\ u[qStart] = "?"
                  THEN SubSeq(u, qStart + 1, hStart - 1) ELSE <<>>
        frag   == SubSeq(u, hStart + 1, Len(u))
        badHost == host = <<>> \/ \E i \in 1..Len(host) : host[i] \in ForbiddenHostSyms
        badPort == ~(port = <<>> \/ (Len(port) = 1 /\ port[1] \in PortSyms))
    IN IF badHost \/ badPort THEN UrlThrow
       ELSE [ok |-> TRUE,
             hostname |-> ToLowerCase(host),
             port |-> port,
             pathname |-> IF path = <<>> THEN <<"/">> ELSE path,
             search |-> query,
             hash |-> frag]

\* the (name, value) pairs of url.searchParams, in order
ParamOf(piece) ==
  LET e == FirstIndexOf(piece, {"="}, 1)
  IN [name |-> SubSeq(piece, 1, e - 1), value |-> SubSeq(piece, e + 1, Len(piece))]

SearchParams(search) ==
  LET pieces == Split(search, "&")
      keep == SelectSeq(pieces, LAMBDA p : p # <<>>)
  IN [i \in 1..Len(keep) |-> ParamOf(keep[i])]

\* url.searchParams.has(name)
SearchParamsHas(search, name) ==
  \E i \in 1..Len(SearchParams(search)) : SearchParams(search)[i].name = name

\* ------------------------------------------------------------------------
\* Outcome of a JavaScript call: a returned value or a thrown exception
\* ------------------------------------------------------------------------
Ret(v) == [threw |-> FALSE, val |-> v]
Thrown == [threw |-> TRUE, val |-> FALSE]

\* try { r } catch { fallback }
Catch(r, fallback) == IF r.threw THEN fallback ELSE r

\* ------------------------------------------------------------------------
\* Exchange Filter: BrowserController.isHostAllowed / shouldCaptureResponse
\* ------------------------------------------------------------------------
\* HostMatch with a suffix test that forgets the "." before the entry
HostMatch_noDot(url, allowedHosts) ==
  LET urlObj == NewURL(url)
  IN IF ~urlObj.ok THEN Thrown
     ELSE Ret(\E i \in 1..Len(allowedHosts) :
                \/ urlObj.hostname = allowedHosts[i]
                \/ EndsWith(urlObj.hostname, allowedHosts[i]))

\* the body of the try block of isHostAllowed
HostMatch(url, allowedHosts) ==
  LET urlObj == NewURL(url)
  IN IF ~urlObj.ok THEN Thrown
     ELSE Ret(\E i \in 1..Len(allowedHosts) :
                \/ urlObj.hostname = allowedHosts[i]
                \/ EndsWith(urlObj.hostname, <<".">> \o allowedHosts[i]))

isHostAllowed(url, allowedHosts) ==
  IF Len(allowedHosts) = 0 THEN Ret(TRUE)
  ELSE Catch(HostMatch(url, allowedHosts), Ret(FALSE))

\* response.headers()['content-type'] || ''
HeaderOrEmpty(h) == IF h.present THEN h.value ELSE <<>>

AllowedMethods == {<<"GET">>, <<"POST">>, <<"PUT">>, <<"PATCH">>, <<"DELETE">>}

\* CaptureCriteria without the check of the method
CaptureCriteria_noMethodCheck(response, allowedHosts) ==
  LET host == isHostAllowed(response.url, allowedHosts)
      contentType == HeaderOrEmpty(response.contentType)
  IN IF host.threw THEN Thrown
     ELSE IF ~host.val THEN Ret(FALSE)
     ELSE IF ~Includes(contentType, <<"application/json">>) THEN Ret(FALSE)
     ELSE IF response.resourceType # "fetch" /\ response.resourceType # "xhr" THEN Ret(FALSE)
     ELSE Ret(TRUE)

\* the body of the try block of shouldCaptureResponse
CaptureCriteria(response, allowedHosts) ==
  LET host == isHostAllowed(response.url, allowedHosts)
      contentType == HeaderOrEmpty(response.contentType)
      method == ToUpperCase(response.method)
  IN IF host.threw THEN Thrown
     ELSE IF ~host.val THEN Ret(FALSE)
     ELSE IF ~Includes(contentType, <<"application/json">>) THEN Ret(FALSE)
     ELSE IF response.resourceType # "fetch" /\ response.resourceType # "xhr" THEN Ret(FALSE)
     ELSE IF method \notin AllowedMethods THEN Ret(FALSE)
     ELSE Ret(TRUE)

shouldCaptureResponse(response, allowedHosts) ==
  Catch(CaptureCriteria(response, allowedHosts), Ret(FALSE))

\* ------------------------------------------------------------------------
\* Exchange Classifier: BrowserController.isBffBlockApiPattern and
\* DataProcessor.isBffBlockApiPattern
\* ------------------------------------------------------------------------
\* BlockPattern that looks for "/blocks" and "keys" anywhere in the URL
BlockPattern_anywhere(url) ==
  LET urlObj == NewURL(url)
  IN IF ~urlObj.ok THEN Thrown
     ELSE Ret(Includes(url, <<"/", "blocks">>) /\ Includes(url, <<"keys">>))

BlockPattern(url) ==
  LET urlObj == NewURL(url)
  IN IF ~urlObj.ok THEN Thrown
     ELSE Ret(Includes(urlObj.pathname, <<"/", "blocks">>)
              /\ SearchParamsHas(urlObj.search, <<"keys">>))

isBffBlockApiPattern(url) == Catch(BlockPattern(url), Ret(FALSE))

DataProcessor_isBffBlockApiPattern(logEntry) ==
  Catch(BlockPattern(logEntry.url), Ret(FALSE))

\* ------------------------------------------------------------------------
\* Endpoint Normalizer: DataProcessor
\* A log entry is [method, url, body]; an endpoint (ProcessedApiData) is
\* [method, url, responseBody, queryParams, pathParams].
\* ------------------------------------------------------------------------
\* Record<string, string> filled by params[key] = value over pairs[1..n]:
\* a later pair with the same name overwrites an earlier one
ParamsRecord(pairs) ==
  [n \in {pairs[i].name : i \in 1..Len(pairs)} |->
     LET last == CHOOSE i \in 1..Len(pairs) :
                   /\ pairs[i].name = n
                   /\ \A j \in (i + 1)..Len(pairs) : pairs[j].name # n
     IN pairs[last].value]

extractQueryParams(url) ==
  LET urlObj == NewURL(url)
  IN IF ~urlObj.ok THEN <<>> ELSE ParamsRecord(SearchParams(urlObj.search))

extractPathParams(url) == <<>>

createEndpointKey(logEntry) ==
  LET urlObj == NewURL(logEntry.url)
  IN IF ~urlObj.ok
     THEN logEntry.method \o <<" ">> \o logEntry.url
     ELSE ToUpperCase(logEntry.method) \o <<" ">> \o urlObj.hostname \o urlObj.pathname

\* index of the group with the given key, 0 if there is none (Map.has / Map.get)
GroupIndex(groups, key) ==
  LET idx == {i \in 1..Len(groups) : groups[i].endpointKey = key}
  IN IF idx = {} THEN 0 ELSE MinOf(idx)

\* AddToGroup that lets the latest member decide the flag of the group
AddToGroup_lastFlag(groups, log, endpointKey, isBff, g) ==
  IF g # 0
  THEN [groups EXCEPT ![g] = [endpointKey |-> endpointKey,
                               logs |-> Append(groups[g].logs, log),
                               isBffBlockApi |-> isBff]]
  ELSE Append(groups, [endpointKey |-> endpointKey, logs |-> <<log>>,
                       isBffBlockApi |-> isBff])

\* the if/else of the forEach body of groupLogsByEndpoint; g is the index of
\* the existing group, 0 if endpointGroups.has(endpointKey) is false
AddToGroup(groups, log, endpointKey, isBff, g) ==
  IF g # 0
  THEN [groups EXCEPT ![g] = [endpointKey |-> endpointKey,
                               logs |-> Append(groups[g].logs, log),
                               isBffBlockApi |-> groups[g].isBffBlockApi \/ isBff]]
  ELSE Append(groups, [endpointKey |-> endpointKey, logs |-> <<log>>,
                       isBffBlockApi |-> isBff])

AddWithKey(groups, log, endpointKey) ==
  AddToGroup(groups, log, endpointKey, DataProcessor_isBffBlockApiPattern(log).val,
             GroupIndex(groups, endpointKey))

\* one iteration of the forEach of groupLogsByEndpoint
AddToGroups(groups, log) == AddWithKey(groups, log, createEndpointKey(log))

\* the Map of groupLogsByEndpoint as the sequence of its values in insertion order
RECURSIVE groupLogsByEndpoint(_)
groupLogsByEndpoint(logs) ==
  IF logs = <<>> THEN <<>>
  ELSE AddToGroups(groupLogsByEndpoint(SubSeq(logs, 1, Len(logs) - 1)), logs[Len(logs)])

\* BestIndex replacing the best log also on an equally long body
RECURSIVE BestIndex_lastWins(_, _)
BestIndex_lastWins(logs, n) ==
  IF n <= 1 THEN 1
  ELSE LET b == BestIndex_lastWins(logs, n - 1)
       IN IF Len(logs[n].body) >= Len(logs[b].body) THEN n ELSE b

\* the forEach of mergeEndpointLogs: index of bestLog after visiting logs[1..n]
RECURSIVE BestIndex(_, _)
BestIndex(logs, n) ==
  IF n <= 1 THEN 1
  ELSE LET b == BestIndex(logs, n - 1)
       IN IF Len(logs[n].body) > Len(logs[b].body) THEN n ELSE b

\* the ProcessedApiData built from the best log
ProcessedFromBest(bestLog) ==
  [method |-> ToUpperCase(bestLog.method),
   url |-> bestLog.url,
   responseBody |-> bestLog.body,
   queryParams |-> extractQueryParams(bestLog.url),
   pathParams |-> extractPathParams(bestLog.url)]

\* mergeEndpointLogs that refuses a group of one log as it refuses an empty one
mergeEndpointLogs_refusesSingle(mergeInfo) ==
  IF Len(mergeInfo.logs) <= 1 THEN Thrown
  ELSE Ret(ProcessedFromBest(mergeInfo.logs[BestIndex(mergeInfo.logs, Len(mergeInfo.logs))]))

mergeEndpointLogs(mergeInfo) ==
  IF Len(mergeInfo.logs) = 0 THEN Thrown
  ELSE Ret(ProcessedFromBest(mergeInfo.logs[BestIndex(mergeInfo.logs, Len(mergeInfo.logs))]))

processLogEntry(logEntry) ==
  [method |-> ToUpperCase(logEntry.method),
   url |-> logEntry.url,
   responseBody |-> logEntry.body,
   queryParams |-> extractQueryParams(logEntry.url),
   pathParams |-> extractPathParams(logEntry.url)]

\* the comparator given to Array.prototype.sort
CompareBff(a, b) ==
  LET aIsBff == DataProcessor_isBffBlockApiPattern(a).val
      bIsBff == DataProcessor_isBffBlockApiPattern(b).val
  IN IF aIsBff /\ ~bIsBff THEN -1
     ELSE IF ~aIsBff /\ bIsBff THEN 1
     ELSE 0

\* InsertPos that places an element before the elements it compares equal to
InsertPos_beforeEqual(sorted, x) ==
  LET later == {i \in 1..Len(sorted) : CompareBff(x, sorted[i]) <= 0}
  IN IF later = {} THEN Len(sorted) + 1 ELSE MinOf(later)

\* Array.prototype.sort is stable (ES2019, every Node release the browser
\* driver runs on): an element is placed before the first element it compares
\* less than, hence after the elements it compares equal to
InsertPos(sorted, x) ==
  LET later == {i \in 1..Len(sorted) : CompareBff(x, sorted[i]) < 0}
  IN IF later = {} THEN Len(sorted) + 1 ELSE MinOf(later)

InsertAt(s, pos, x) == SubSeq(s, 1, pos - 1) \o <<x>> \o SubSeq(s, pos, Len(s))

InsertSorted(sorted, x) == InsertAt(sorted, InsertPos(sorted, x), x)

\* filteredLogs.sort(comparator)
RECURSIVE SortBffFirst(_)
SortBffFirst(logs) ==
  IF logs = <<>> THEN <<>>
  ELSE InsertSorted(SortBffFirst(SubSeq(logs, 1, Len(logs) - 1)), logs[Len(logs)])

\* Array.prototype.slice(0, n)
Slice0(s, n) == SubSeq(s, 1, IF n < Len(s) THEN n ELSE Len(s))

filterAndPrioritizeLogs(logs, options) ==
  LET sorted == IF options.prioritizeBffApis THEN SortBffFirst(logs) ELSE logs
  IN IF options.maxApis > 0 THEN Slice0(sorted, options.maxApis) ELSE sorted

CountTrue(flags) == Cardinality({i \in 1..Len(flags) : flags[i]})

FailedProcessing(logs) ==
  [success |-> FALSE, threw |-> FALSE, processedData |-> <<>>, totalLogs |-> Len(logs),
   bffApiCount |-> 0, uniqueEndpoints |-> 0, hasError |-> TRUE]

SucceededProcessing(logs, processedData, bffApiCount) ==
  [success |-> TRUE, threw |-> FALSE, processedData |-> processedData,
   totalLogs |-> Len(logs), bffApiCount |-> bffApiCount,
   uniqueEndpoints |-> Len(processedData), hasError |-> FALSE]

\* the forEach over endpointGroups; merged[i] is the outcome of mergeEndpointLogs
\* on the i-th group, and an exception leaves the try block
CollectMerged(logs, endpointGroups, merged) ==
  IF \E i \in 1..Len(merged) : merged[i].threw
  THEN FailedProcessing(logs)
  ELSE SucceededProcessing(
         logs,
         [i \in 1..Len(merged) |-> merged[i].val],
         CountTrue([i \in 1..Len(endpointGroups) |-> endpointGroups[i].isBffBlockApi]))

\* the mergeDuplicates branch
ProcessMerged(logs, endpointGroups) ==
  CollectMerged(logs, endpointGroups,
                [i \in 1..Len(endpointGroups) |-> mergeEndpointLogs(endpointGroups[i])])

\* the else branch: every log on its own
ProcessEach(logs, filteredLogs) ==
  SucceededProcessing(
    logs,
    [i \in 1..Len(filteredLogs) |-> processLogEntry(filteredLogs[i])],
    CountTrue([i \in 1..Len(filteredLogs) |->
                 DataProcessor_isBffBlockApiPattern(filteredLogs[i]).val]))

ProcessFiltered(logs, options, filteredLogs) ==
  IF options.mergeDuplicates
  THEN ProcessMerged(logs, groupLogsByEndpoint(filteredLogs))
  ELSE ProcessEach(logs, filteredLogs)

processNetworkLogs(logs, options) ==
  IF Len(logs) = 0
  THEN [success |-> TRUE, threw |-> FALSE, processedData |-> <<>>, totalLogs |-> 0,
        bffApiCount |-> 0, uniqueEndpoints |-> 0, hasError |-> FALSE]
  ELSE ProcessFiltered(logs, options, filterAndPrioritizeLogs(logs, options))

\* ------------------------------------------------------------------------
\* Serializer: DataProcessor.serializeForAI.
\*
\* A JavaScript value is a string, undefined, an object whose values are
\* strings (members in property order) or an object graph that contains
\* itself.  A text is a sequence of tokens; a string token holds the quoted
\* (escaped) characters.
\* ------------------------------------------------------------------------
JsString(chars) == [kind |-> "string", chars |-> chars, members |-> <<>>]
JsObject(members) == [kind |-> "object", chars |-> <<>>, members |-> members]
JsCyclic == [kind |-> "cyclic", chars |-> <<>>, members |-> <<>>]
JsUndefined == [kind |-> "undefined", chars |-> <<>>, members |-> <<>>]

Member(key, val) == [key |-> key, val |-> val]

Tok(t, v) == [t |-> t, v |-> v]
Punct(p) == Tok(p, <<>>)

\* the line break and indentation JSON.stringify(value, null, 2) puts before
\* an item at the given depth
Nl(depth) == Tok("nl", [i \in 1..(2 * depth) |-> " "])

\* the escaping JSON.stringify applies inside a quoted string
RECURSIVE Escape(_)
Escape(chars) ==
  IF chars = <<>> THEN <<>>
  ELSE (IF chars[1] = "\"" \/ chars[1] = "\\" THEN <<"\\", chars[1]>>
        ELSE IF chars[1] = "\n" THEN <<"\\", "n">>
        ELSE <<chars[1]>>) \o Escape(Tail(chars))

StrTok(chars) == Tok("string", Escape(chars))

RECURSIVE Flatten(_)
Flatten(seqs) == IF seqs = <<>> THEN <<>> ELSE Head(seqs) \o Flatten(Tail(seqs))

\* items one per line at the given depth, separated by commas
Lines(items, depth) ==
  Flatten([i \in 1..Len(items) |->
             <<Nl(depth)>> \o items[i]
               \o (IF i < Len(items) THEN <<Punct(",")>> ELSE <<>>)])

Block(open, items, close, depth) ==
  IF items = <<>> THEN <<Punct(open), Punct(close)>>
  ELSE <<Punct(open)>> \o Lines(items, depth + 1) \o <<Nl(depth), Punct(close)>>

\* the text of a Record<string, string>
RecordText(members, depth) ==
  Block("{",
        [i \in 1..Len(members) |->
           <<StrTok(members[i].key), Punct(":"), StrTok(members[i].val)>>],
        "}", depth)

ValueText(v, depth) ==
  IF v.kind = "string" THEN <<StrTok(v.chars)>> ELSE RecordText(v.members, depth)

\* the text of an object: members whose value is undefined are left out
ObjectText(members, depth) ==
  Block("{",
        [i \in 1..Len(SelectSeq(members, LAMBDA m : m.val.kind # "undefined")) |->
           <<StrTok(SelectSeq(members, LAMBDA m : m.val.kind # "undefined")[i].key),
             Punct(":")>>
             \o ValueText(SelectSeq(members, LAMBDA m : m.val.kind # "undefined")[i].val,
                          depth + 1)],
        "}", depth)

\* JSON.stringify(aiData, null, 2): TypeError on a circular structure
JsonStringify(aiData) ==
  IF \E i \in 1..Len(aiData) : \E j \in 1..Len(aiData[i]) : aiData[i][j].val.kind = "cyclic"
  THEN [threw |-> TRUE, text |-> <<>>]
  ELSE [threw |-> FALSE,
        text |-> Block("[", [i \in 1..Len(aiData) |-> ObjectText(aiData[i], 1)], "]", 0)]

\* AiData that stamps each element with the time of the call
AiData_stamped(api, now) ==
  << Member(<<"method">>, api.method),
     Member(<<"url">>, api.url),
     Member(<<"responseBody">>, api.responseBody),
     Member(<<"queryParams">>, api.queryParams),
     Member(<<"pathParams">>, api.pathParams),
     Member(<<"timestamp">>, JsString(<<ToString(now)>>)) >>

\* the object literal of the map callback: the five fields, in this order
AiData(api, now) ==
  << Member(<<"method">>, api.method),
     Member(<<"url">>, api.url),
     Member(<<"responseBody">>, api.responseBody),
     Member(<<"queryParams">>, api.queryParams),
     Member(<<"pathParams">>, api.pathParams) >>

\* the outcome of serializeForAI: the text, or the SERIALIZATION_ERROR thrown
\* by the catch block
SerializedAs(stringified) ==
  IF stringified.threw
  THEN [threw |-> TRUE, text |-> <<>>, error |-> "SERIALIZATION_ERROR"]
  ELSE [threw |-> FALSE, text |-> stringified.text, error |-> ""]

\* options are the options of the processor instance, now the clock at the call
serializeForAI(processedData, options, now) ==
  SerializedAs(JsonStringify([i \in 1..Len(processedData) |-> AiData(processedData[i], now)]))

\* JSON.parse, written from the grammar of JSON and not from the serializer:
\* white space between tokens is skipped, escapes inside strings are undone
RECURSIVE Unescape(_)
Unescape(chars) ==
  IF chars = <<>> THEN <<>>
  ELSE IF chars[1] = "\\" /\ Len(chars) >= 2
       THEN <<(IF chars[2] = "n" THEN "\n" ELSE chars[2])>> \o Unescape(SubSeq(chars, 3, Len(chars)))
       ELSE <<chars[1]>> \o Unescape(Tail(chars))

TokAt(toks, i) == IF i \in 1..Len(toks) THEN toks[i] ELSE Tok("eof", <<>>)

Parsed(val, next) == [ok |-> TRUE, val |-> val, next |-> next]
ParseFailed == [ok |-> FALSE, val |-> JsUndefined, next |-> 0]

RECURSIVE ParseValue(_, _), ParseMembers(_, _, _), ParseMembersAfter(_, _, _, _)
RECURSIVE ParseElements(_, _, _), ParseElementsAfter(_, _, _)

\* a value is a string or an object
ParseValue(toks, i) ==
  IF TokAt(toks, i).t = "string" THEN Parsed(JsString(Unescape(toks[i].v)), i + 1)
  ELSE IF TokAt(toks, i).t = "{"
       THEN IF TokAt(toks, i + 1).t = "}" THEN Parsed(JsObject(<<>>), i + 2)
            ELSE ParseMembers(toks, i + 1, <<>>)
       ELSE ParseFailed

\* key : value, then a comma and more members or the closing brace
ParseMembers(toks, i, acc) ==
  IF TokAt(toks, i).t = "string" /\ TokAt(toks, i + 1).t = ":"
  THEN ParseMembersAfter(toks, Unescape(toks[i].v), ParseValue(toks, i + 2), acc)
  ELSE ParseFailed

ParseMembersAfter(toks, key, r, acc) ==
  IF ~r.ok THEN ParseFailed
  ELSE IF TokAt(toks, r.next).t = ","
       THEN ParseMembers(toks, r.next + 1, Append(acc, Member(key, r.val)))
       ELSE IF TokAt(toks, r.next).t = "}"
            THEN Parsed(JsObject(Append(acc, Member(key, r.val))), r.next + 1)
            ELSE ParseFailed

ParseElements(toks, i, acc) == ParseElementsAfter(toks, ParseValue(toks, i), acc)

ParseElementsAfter(toks, r, acc) ==
  IF ~r.ok THEN ParseFailed
  ELSE IF TokAt(toks, r.next).t = ","
       THEN ParseElements(toks, r.next + 1, Append(acc, r.val))
       ELSE IF TokAt(toks, r.next).t = "]"
            THEN Parsed(Append(acc, r.val), r.next + 1)
            ELSE ParseFailed

ParseArray(toks) ==
  IF TokAt(toks, 1).t # "[" THEN ParseFailed
  ELSE IF TokAt(toks, 2).t = "]" THEN Parsed(<<>>, 3)
       ELSE ParseElements(toks, 2, <<>>)

ParseEnds(toks, r) == IF r.ok /\ r.next = Len(toks) + 1 THEN r ELSE ParseFailed

JsonParse(text) ==
  ParseEnds(SelectSeq(text, LAMBDA t : t.t # "nl"),
            ParseArray(SelectSeq(text, LAMBDA t : t.t # "nl")))

\* ------------------------------------------------------------------------
\* Inputs.  A URL is assembled from parts; each part carries what is true of
\* it by construction (labels of the host, whether the path contains
\* "/blocks", the parameters of the query), so that properties can be
\* stated about the URL without parsing it.
\* ------------------------------------------------------------------------
Str_api_example_com == <<"api", ".", "example", ".", "com">>
Str_example_com == <<"example", ".", "com">>
Str_otherhost_com == <<"otherhost", ".", "com">>
Str_localhost_3000 == <<"localhost", ":", "3000">>
Str_API_example_com == <<"API", ".", "example", ".", "com">>

HApi == [str |-> Str_api_example_com,
         labels |-> <<(<<"api">>), (<<"example">>), (<<"com">>)>>, valid |-> TRUE]
HSub == [str |-> <<"sub", ".">> \o Str_api_example_com,
         labels |-> <<(<<"sub">>), (<<"api">>), (<<"example">>), (<<"com">>)>>, valid |-> TRUE]
HEvil == [str |-> Str_api_example_com \o <<".", "evil", ".", "com">>,
          labels |-> <<(<<"api">>), (<<"example">>), (<<"com">>), (<<"evil">>), (<<"com">>)>>,
          valid |-> TRUE]
HOther == [str |-> Str_otherhost_com,
           labels |-> <<(<<"otherhost">>), (<<"com">>)>>, valid |-> TRUE]
HNotApi == [str |-> <<"not">> \o Str_api_example_com,
            labels |-> <<(<<"not", "api">>), (<<"example">>), (<<"com">>)>>, valid |-> TRUE]
HUpper == [str |-> Str_API_example_com,
           labels |-> <<(<<"api">>), (<<"example">>), (<<"com">>)>>, valid |-> TRUE]
HPort == [str |-> Str_localhost_3000, labels |-> <<(<<"localhost">>)>>, valid |-> TRUE]
HSpace == [str |-> <<"exa", " ", "mple", ".", "com">>, labels |-> <<>>, valid |-> FALSE]
HBadPort == [str |-> <<"localhost", ":", "abc">>, labels |-> <<>>, valid |-> FALSE]

HostParts == {HApi, HSub, HEvil, HOther, HNotApi, HUpper, HPort, HSpace, HBadPort}

PNone == [str |-> <<>>, hasBlocks |-> FALSE]
PBlocks == [str |-> <<"/", "v1", "/", "blocks">>, hasBlocks |-> TRUE]
PUsers == [str |-> <<"/", "v1", "/", "users">>, hasBlocks |-> FALSE]
PBlocksmith == [str |-> <<"/", "blocks", "mith">>, hasBlocks |-> TRUE]
PMyblocks == [str |-> <<"/", "my", "blocks">>, hasBlocks |-> FALSE]
PKeys == [str |-> <<"/", "keys", "=", "a">>, hasBlocks |-> FALSE]

PathParts == {PNone, PBlocks, PUsers, PBlocksmith, PMyblocks, PKeys}

QNone == [str |-> <<>>, hasKeys |-> FALSE, params |-> <<>>]
QKeysA == [str |-> <<"?", "keys", "=", "a">>, hasKeys |-> TRUE,
           params |-> [n \in {<<"keys">>} |-> <<"a">>]]
QKeysB == [str |-> <<"?", "keys", "=", "b">>, hasKeys |-> TRUE,
           params |-> [n \in {<<"keys">>} |-> <<"b">>]]
QPageKeys == [str |-> <<"?", "page", "=", "1", "&", "keys", "=", "a">>, hasKeys |-> TRUE,
              params |-> [n \in {<<"page">>, <<"keys">>} |->
                            IF n = <<"page">> THEN <<"1">> ELSE <<"a">>]]
QMykeys == [str |-> <<"?", "my", "keys", "=", "a">>, hasKeys |-> FALSE,
            params |-> [n \in {<<"my", "keys">>} |-> <<"a">>]]
QValKeys == [str |-> <<"?", "k", "=", "keys">>, hasKeys |-> FALSE,
             params |-> [n \in {<<"k">>} |-> <<"keys">>]]
QBlocks == [str |-> <<"?", "q", "=", "/", "blocks">>, hasKeys |-> FALSE,
            params |-> [n \in {<<"q">>} |-> <<"/", "blocks">>]]
QBare == [str |-> <<"?", "keys">>, hasKeys |-> TRUE,
          params |-> [n \in {<<"keys">>} |-> <<>>]]
QTwice == [str |-> <<"?", "page", "=", "1", "&", "page", "=", "2">>, hasKeys |-> FALSE,
           params |-> [n \in {<<"page">>} |-> <<"2">>]]

QueryParts == {QNone, QKeysA, QKeysB, QPageKeys, QMykeys, QValKeys, QBlocks, QBare, QTwice}

FNone == <<>>
FKeys == <<"#", "?", "keys", "=", "a">>
FragParts == {FNone, FKeys}

SHttps == <<"https", "://">>
SNone == <<>>
SchemeParts == {SHttps, SNone}

UrlParts(schemes, hosts, paths, queries, frags) ==
  [scheme : schemes, host : hosts, path : paths, query : queries, frag : frags]

\* the URL string written from its parts
Render(p) == p.scheme \o p.host.str \o p.path.str \o p.query.str \o p.frag

\* what is true of a URL by construction
Parseable(p) == p.scheme # <<>> /\ p.host.valid

RECURSIVE JoinDots(_)
JoinDots(labels) ==
  IF Len(labels) = 0 THEN <<>>
  ELSE IF Len(labels) = 1 THEN labels[1]
  ELSE labels[1] \o <<".">> \o JoinDots(Tail(labels))

\* entry e names the host of p or a parent domain of it
NamesHostOrParent(p, e) ==
  \E k \in 0..(Len(p.host.labels) - 1) :
     JoinDots(SubSeq(p.host.labels, k + 1, Len(p.host.labels))) = e

AllowedHostConfigs ==
  { <<>>,
    <<Str_api_example_com>>,
    <<Str_example_com>>,
    <<Str_otherhost_com, Str_api_example_com>>,
    <<Str_localhost_3000>>,
    <<Str_API_example_com>> }

NoHeader == [present |-> FALSE, value |-> <<>>]
Header(v) == [present |-> TRUE, value |-> v]
CtJson == Header(<<"application/json">>)
CtJsonCharset == Header(<<"application/json", ";", " ", "charset=utf-8">>)
CtHtml == Header(<<"text/html">>)
CtUpper == Header(<<"Application/JSON">>)
ContentTypes == {NoHeader, CtJson, CtJsonCharset, CtHtml, CtUpper}

ResourceTypes == {"fetch", "xhr", "document", "script"}
Methods == {<<"GET">>, <<"get">>, <<"POST">>, <<"DELETE">>, <<"OPTIONS">>, <<"HEAD">>}

\* exchanges the browser delivers during a capture (response.url() of a
\* real browser is always an absolute, parseable URL)
U_blocksA == [scheme |-> SHttps, host |-> HApi, path |-> PBlocks, query |-> QKeysA, frag |-> FNone]
U_blocksB == [scheme |-> SHttps, host |-> HApi, path |-> PBlocks, query |-> QKeysB, frag |-> FNone]
U_blocks == [scheme |-> SHttps, host |-> HApi, path |-> PBlocks, query |-> QNone, frag |-> FNone]
U_users == [scheme |-> SHttps, host |-> HApi, path |-> PUsers, query |-> QTwice, frag |-> FNone]
U_usersPlain == [scheme |-> SHttps, host |-> HApi, path |-> PUsers, query |-> QNone, frag |-> FNone]
U_usersUpper == [scheme |-> SHttps, host |-> HUpper, path |-> PUsers, query |-> QNone, frag |-> FKeys]
U_usersNoScheme == [scheme |-> SNone, host |-> HApi, path |-> PUsers, query |-> QNone, frag |-> FNone]
U_other == [scheme |-> SHttps, host |-> HOther, path |-> PUsers, query |-> QNone, frag |-> FNone]
U_invalid == [scheme |-> SNone, host |-> [str |-> <<"not-a-valid-url">>, labels |-> <<>>, valid |-> FALSE],
              path |-> PNone, query |-> QNone, frag |-> FNone]

Exchange(u, ct, rt, m, b) ==
  [parts |-> u, url |-> Render(u), contentType |-> ct, resourceType |-> rt,
   method |-> m, body |-> b]

Exchanges ==
  << Exchange(U_blocksA, CtJson, "fetch", <<"GET">>, <<"x">>),
     Exchange(U_other, CtJsonCharset, "xhr", <<"post">>, <<>>),
     Exchange(U_users, CtHtml, "fetch", <<"GET">>, <<"x">>),
     Exchange(U_users, CtJson, "document", <<"GET">>, <<"x">>),
     Exchange(U_users, CtJson, "fetch", <<"OPTIONS">>, <<>>) >>

CaptureConfigs == { <<>>, <<Str_api_example_com>> }
CaptureTargets == { U_usersPlain, U_invalid }

\* log entries given to processNetworkLogs
Log(m, u, b) == [method |-> m, url |-> Render(u), body |-> b, parts |-> u]

NormLogs ==
  { Log(<<"GET">>, U_blocksA, <<"x">>),
    Log(<<"GET">>, U_blocksB, <<"x", "y">>),
    Log(<<"get">>, U_blocks, <<"y">>),
    Log(<<"GET">>, U_users, <<"x", "y">>),
    Log(<<"BREW">>, U_usersPlain, <<>>),
    Log(<<"GET">>, U_usersNoScheme, <<"z">>),
    Log(<<"GET">>, U_invalid, <<"x">>),
    Log(<<"GET">>, U_usersUpper, <<"x", "y", "z">>) }

LogLists == UNION { [1..n -> NormLogs] : n \in 0..MaxLogs }

\* the options of createDataProcessor() without arguments
DefaultOptions == [mergeDuplicates |-> TRUE, prioritizeBffApis |-> TRUE, maxApis |-> 50]

ProcessingOptions ==
  [mergeDuplicates : BOOLEAN, prioritizeBffApis : BOOLEAN, maxApis : 0..MaxCap]
    \cup {DefaultOptions}

\* ------------------------------------------------------------------------
\* State
\* ------------------------------------------------------------------------
Kinds == {"page", "context", "browser"}
Calls == 1..(IF MaxReuseCalls > MaxCalls THEN MaxReuseCalls ELSE MaxCalls)

VARIABLES
  allowedHosts,     \* options.config.filter.allowed_hosts
  pc,               \* position of the running captureNetworkLogs / cleanup call
  cleaner,          \* who runs cleanup: "capture" (the finally block) or "public"
  browser,          \* this.browser: 0 is null, c > 0 the handle launched by call c
  context,          \* this.context
  page,             \* this.page
  capturedLogs,     \* this.capturedLogs
  isCapturing,      \* this.isCapturing
  logCounter,       \* this.logCounter
  pending,          \* response handlers awaiting response.text()
  result,           \* the result object of the current / last call
  rejected,         \* whether a captureNetworkLogs promise rejected
  callNo,           \* number of captureNetworkLogs calls started
  events,           \* number of response events delivered
  observed,         \* per response event: where the call was when the listener ran
  cleanups,         \* number of public cleanup() calls that found something to close
  acquired,         \* acquired[k]: the calls whose resource of kind k was acquired
  closeCalls,       \* closeCalls[k][c]: close() calls made on the handle k of call c
  doneBeforeSignal, \* ids of the handlers that completed in this call before its signal
  inflightAtSignal, \* ids of the handlers awaiting the body when the signal came
  reached,          \* how far the running call got: "init", "capturing", "signalled"
  fcall,            \* last call of a filter / classifier function
  ncall,            \* last call of processNetworkLogs
  scall,            \* the last two calls of serializeForAI on one collection
  cli,              \* one run of a command-line program (NetworkCaptureCLI, MockGenCLI)
  ai,               \* one call of AiGenerator.generatePostmanCollection
  cfg,              \* the default configuration objects of config/index.ts and their use
  dcall             \* one call of DocumentGenerator.generateDocumentation

capVars == <<allowedHosts, pc, cleaner, browser, context, page, capturedLogs,
             isCapturing, logCounter, pending, result, rejected, callNo, events,
             observed, cleanups, acquired, closeCalls, doneBeforeSignal, inflightAtSignal,
             reached>>
pureVars == <<fcall, ncall, scall, cli, ai, cfg, dcall>>
vars == <<capVars, pureVars>>

NoResult ==
  [state |-> "none", success |-> FALSE, logs |-> <<>>, totalRequests |-> 0,
   filteredRequests |-> 0, hasError |-> FALSE, error |-> "", raised |-> "",
   call |-> 0]

NoFcall ==
  [op |-> "none", url |-> U_usersPlain, hosts |-> <<>>,
   response |-> Exchange(U_usersPlain, CtJson, "fetch", <<"GET">>, <<>>),
   ret |-> Ret(FALSE)]

NoNcall ==
  [op |-> "none", logs |-> <<>>,
   options |-> [mergeDuplicates |-> TRUE, prioritizeBffApis |-> TRUE, maxApis |-> 0],
   out |-> FailedProcessing(<<>>)]

\* endpoint objects given to serializeForAI; extra is a property beyond the
\* five of ProcessedApiData (undefined when there is none)
Api(method, url, responseBody, queryParams, pathParams, extra) ==
  [method |-> method, url |-> url, responseBody |-> responseBody,
   queryParams |-> queryParams, pathParams |-> pathParams, extra |-> extra]

Body_json == <<"{", "\"", "a", "\"", ":", "1", "}">>
Body_escapes == <<"\\", "n", "\"", "\n", "\\">>

Q_keys == JsObject(<<Member(<<"keys">>, <<"a">>)>>)
Q_two == JsObject(<<Member(<<"page">>, <<"2">>), Member(<<"q", "\"">>, <<"\\", "\"">>)>>)
Q_none == JsObject(<<>>)

\* endpoints as processNetworkLogs builds them
TypedApis ==
  { Api(JsString(<<"GET">>), JsString(Render(U_blocksA)), JsString(Body_json),
        Q_keys, Q_none, JsUndefined),
    Api(JsString(<<"POST">>), JsString(Render(U_usersPlain)), JsString(Body_escapes),
        Q_two, Q_none, JsUndefined),
    Api(JsString(<<"GET">>), JsString(<<"not-a-valid-url">>), JsString(<<>>),
        Q_none, Q_none, JsUndefined) }

\* endpoints a caller can hand over beyond those: with a circular structure
\* in a field or in an extra property, with an extra property, with fields
\* missing
UntypedApis ==
  { Api(JsString(<<"GET">>), JsString(Render(U_blocksA)), JsString(Body_json),
        JsCyclic, Q_none, JsUndefined),
    Api(JsString(<<"GET">>), JsString(Render(U_blocksA)), JsString(Body_json),
        Q_keys, Q_none, JsCyclic),
    Api(JsString(<<"GET">>), JsString(<<"test">>), JsUndefined,
        JsUndefined, JsUndefined, JsCyclic),
    Api(JsString(<<"GET">>), JsString(Render(U_usersPlain)), JsString(<<>>),
        Q_none, Q_none, JsString(<<"1700000000">>)) }

ApiLists == UNION { [1..n -> TypedApis \cup UntypedApis] : n \in 0..MaxEndpoints }

\* the options of the processor instance serializeForAI is called on
SerializerInstances ==
  { [mergeDuplicates |-> TRUE, prioritizeBffApis |-> TRUE, maxApis |-> 50],
    [mergeDuplicates |-> FALSE, prioritizeBffApis |-> FALSE, maxApis |-> 0] }

NoOutcome ==
  [done |-> FALSE, now |-> 0,
   options |-> [mergeDuplicates |-> TRUE, prioritizeBffApis |-> TRUE, maxApis |-> 50],
   ret |-> [threw |-> FALSE, text |-> <<>>, error |-> ""]]

Outcome(processedData, options, now) ==
  [done |-> TRUE, now |-> now, options |-> options,
   ret |-> serializeForAI(processedData, options, now)]

NoScall == [op |-> "none", input |-> <<>>, first |-> NoOutcome, second |-> NoOutcome]

\* ------------------------------------------------------------------------
\* Document Generator: DocumentGenerator.generateDocumentation, Markdown
\* format.  A document is the sequence of its lines; a line is [h, text]: h
\* is the level of a Markdown heading ("## " is 2) and 0 for any other line,
\* text the line without the heading marks.
\* ------------------------------------------------------------------------
Line(h, text) == [h |-> h, text |-> text]
Blank == Line(0, <<>>)

\* the grave accent of Markdown code marks
Backtick == "grave"

DocumentGenerator_isBffBlockApi(api) ==
  LET url == NewURL(api.url)
  IN IF ~url.ok THEN FALSE
     ELSE Includes(url.pathname, <<"/", "blocks">>) /\ SearchParamsHas(url.search, <<"keys">>)

\* url.match(/https?:\/\/([^\/]+)/): the first match and its group
HostMatches(url) ==
  {i \in 1..(Len(url) - 2) : url[i] \in Schemes /\ url[i + 1] = "://" /\ url[i + 2] # "/"}

extractHostFromUrl(url) ==
  LET urlObj == NewURL(url)
  IN IF urlObj.ok THEN urlObj.hostname
     ELSE IF HostMatches(url) = {} THEN <<"unknown">>
     ELSE LET i == MinOf(HostMatches(url))
          IN SubSeq(url, i + 2, FirstIndexOf(url, {"/"}, i + 2) - 1)

\* [...new Set(values)]: the distinct values in order of first occurrence
Distinct(values) ==
  LET firsts == SelectSeq([i \in 1..Len(values) |-> i],
                          LAMBDA i : \A j \in 1..(i - 1) : values[j] # values[i])
  IN [k \in 1..Len(firsts) |-> values[firsts[k]]]

\* strings.join(', ')
RECURSIVE JoinComma(_)
JoinComma(strings) ==
  IF strings = <<>> THEN <<>>
  ELSE IF Len(strings) = 1 THEN strings[1]
  ELSE strings[1] \o <<", ">> \o JoinComma(Tail(strings))

generateStats(processedData, contentLength) ==
  LET bffApis == SelectSeq(processedData, DocumentGenerator_isBffBlockApi)
  IN [totalEndpoints |-> Len(processedData),
      bffApiCount |-> Len(bffApis),
      regularApiCount |-> Len(processedData) - Len(bffApis),
      uniqueHosts |-> Distinct([i \in 1..Len(processedData) |->
                                  extractHostFromUrl(processedData[i].url)]),
      httpMethods |-> Distinct([i \in 1..Len(processedData) |-> processedData[i].method]),
      documentSize |-> contentLength]

\* groupByMethod with Object.entries: the groups in order of first occurrence
\* of their method
groupByMethod(apis) ==
  LET methods == Distinct([i \in 1..Len(apis) |-> apis[i].method])
  IN [k \in 1..Len(methods) |->
        [method |-> methods[k],
         apis |-> SelectSeq(apis, LAMBDA api : api.method = methods[k])]]

\* the lines both sections write below the heading of an endpoint; the text
\* of an example is formatJsonForDisplay(api.responseBody), kept unevaluated
QueryParameterLines(api) ==
  IF Len(api.queryParams) = 0 THEN <<>>
  ELSE <<Blank, Line(0, <<"**Query Parameters**:">>)>>
         \o [i \in 1..Len(api.queryParams) |->
               Line(0, <<"- ", Backtick>> \o api.queryParams[i].name \o <<Backtick, ": ">>
                         \o api.queryParams[i].value)]

ExampleLines(api, options) ==
  IF options.includeExamples /\ api.responseBody # <<>>
  THEN <<Blank, Line(0, <<"**Response Example**:">>), Line(0, <<Backtick, Backtick, Backtick, "json">>),
         Line(0, <<"formatJsonForDisplay">> \o api.responseBody), Line(0, <<Backtick, Backtick, Backtick>>)>>
  ELSE <<>>

EndpointHeading(api) == api.method \o <<" ">> \o api.url

BffApiLines(api, options) ==
  <<Line(3, EndpointHeading(api)), Blank, Line(0, <<"**Type**: BFF Block API">>),
    Line(0, <<"**Host**: ">> \o extractHostFromUrl(api.url))>>
    \o QueryParameterLines(api) \o ExampleLines(api, options)
    \o <<Blank, Line(0, <<"---">>), Blank>>

RegularApiLines(api, options) ==
  <<Line(4, EndpointHeading(api)), Blank,
    Line(0, <<"**Host**: ">> \o extractHostFromUrl(api.url))>>
    \o QueryParameterLines(api) \o ExampleLines(api, options) \o <<Blank>>

MethodGroupLines(group, options) ==
  <<Line(3, group.method \o <<" Endpoints">>), Blank>>
    \o Flatten([i \in 1..Len(group.apis) |-> RegularApiLines(group.apis[i], options)])
    \o <<Line(0, <<"---">>), Blank>>

BffSection(processedData, options) ==
  LET bffApis == SelectSeq(processedData, DocumentGenerator_isBffBlockApi)
  IN IF options.includeBffAnalysis /\ Len(bffApis) > 0
     THEN <<Line(2, <<"BFF Block APIs">>), Blank,
            Line(0, <<"These APIs follow the Backend for Frontend (BFF) block pattern:">>),
            Blank>>
            \o Flatten([i \in 1..Len(bffApis) |-> BffApiLines(bffApis[i], options)])
     ELSE <<>>

RegularSection(processedData, options) ==
  LET regularApis == SelectSeq(processedData, LAMBDA api : ~DocumentGenerator_isBffBlockApi(api))
      methodGroups == groupByMethod(regularApis)
  IN IF Len(regularApis) > 0
     THEN <<Line(2, <<"Regular APIs">>), Blank>>
            \o Flatten([k \in 1..Len(methodGroups) |-> MethodGroupLines(methodGroups[k], options)])
     ELSE <<>>

generateMarkdownDocumentation(processedData, options, now) ==
  LET stats == generateStats(processedData, 0)
  IN <<Line(1, <<"API Documentation">>), Blank,
       Line(0, <<"Generated on: ", ToString(now)>>),
       Line(0, <<"Total Endpoints: ", ToString(Len(processedData))>>), Blank,
       Line(2, <<"Overview">>), Blank,
       Line(0, <<"- **Total Endpoints**: ", ToString(stats.totalEndpoints)>>),
       Line(0, <<"- **BFF Block APIs**: ", ToString(stats.bffApiCount)>>),
       Line(0, <<"- **Regular APIs**: ", ToString(stats.regularApiCount)>>),
       Line(0, <<"- **Unique Hosts**: ">> \o JoinComma(stats.uniqueHosts)),
       Line(0, <<"- **HTTP Methods**: ">> \o JoinComma(stats.httpMethods)), Blank>>
       \o BffSection(processedData, options)
       \o RegularSection(processedData, options)
       \o <<Line(2, <<"Generated by MockGen AI">>), Blank,
            Line(0, <<"This documentation was automatically generated from browser network logs.">>),
            Blank>>

NoStats ==
  [totalEndpoints |-> 0, bffApiCount |-> 0, regularApiCount |-> 0, uniqueHosts |-> <<>>,
   httpMethods |-> <<>>, documentSize |-> 0]

\* generateDocumentation of a generator whose format is 'markdown'; written
\* tells whether fs.writeFileSync went through
DocumentGenerator_generateDocumentation(processedData, options, now, written) ==
  LET content == generateMarkdownDocumentation(processedData, options, now)
  IN IF Len(processedData) = 0 \/ ~written
     THEN [success |-> FALSE, content |-> <<>>, stats |-> NoStats]
     ELSE [success |-> TRUE, content |-> content,
           stats |-> generateStats(processedData, Len(content))]

\* endpoints given to the generator
DocApi(method, u, responseBody, queryParams) ==
  [method |-> method, url |-> Render(u), responseBody |-> responseBody,
   queryParams |-> queryParams]

DocApis ==
  { DocApi(<<"GET">>, U_blocksA, <<"{", "}">>, <<[name |-> <<"keys">>, value |-> <<"a">>]>>),
    DocApi(<<"GET">>, U_blocks, <<>>, <<>>),
    DocApi(<<"POST">>, U_usersPlain, <<"{", "}">>, <<>>),
    DocApi(<<"GET">>, U_invalid, <<>>, <<>>) }

DocApiLists == UNION { [1..n -> DocApis] : n \in 0..MaxDocApis }

DocumentOptions == [includeExamples : BOOLEAN, includeBffAnalysis : BOOLEAN]

NoDcall ==
  [op |-> "none", input |-> <<>>,
   options |-> [includeExamples |-> TRUE, includeBffAnalysis |-> TRUE],
   ret |-> [success |-> FALSE, content |-> <<>>, stats |-> NoStats]]

\* the programs whose run() is modelled, and what a capture can hand them
Commands == {"NetworkCaptureCLI", "MockGenCLI"}

CliLogs ==
  { Log(<<"GET">>, U_blocksA, <<"x">>),
    Log(<<"GET">>, U_blocksB, <<"x", "y">>),
    Log(<<"GET">>, U_users, <<"x", "y">>),
    Log(<<"GET">>, U_invalid, <<"x">>) }

CliLogLists == UNION { [1..n -> CliLogs] : n \in 0..MaxCliLogs }

\* the options both programs create their DataProcessor with
CliProcessingOptions == [mergeDuplicates |-> TRUE, prioritizeBffApis |-> TRUE, maxApis |-> 50]

Formats == {"markdown", "json", "html"}

\* a run before it starts: pc is the step of run() that comes next; exitCode is
\* -1 while the process runs, 0 when run() returns, 1 after process.exit(1);
\* fault is set once something outside the program failed (input, gum, the
\* file system, the AI service)
NewCli(command) ==
  [command |-> command, pc |-> "getUserUrl", captured |-> FALSE, logs |-> <<>>,
   selectedLogs |-> <<>>, serialized |-> <<>>, format |-> "markdown",
   saved |-> FALSE, fault |-> FALSE, error |-> "", exitCode |-> -1]

NoCli == NewCli("none")

\* an AiGenerationResult not yet returned; threw tells that the promise of
\* generatePostmanCollection was rejected instead
NoAiResult ==
  [done |-> FALSE, threw |-> FALSE, success |-> FALSE, error |-> "", retryCount |-> 0]

\* a call of generatePostmanCollection: pc is where the call stands,
\* retryCount the parameter of the running callGeminiApi, localRetryCount
\* the variable `let retryCount = 0` of generatePostmanCollection; attempts
\* and failures count the calls of model.generateContent made and failed,
\* lastFailure is how the last one failed
NoAi ==
  [pc |-> "idle", hasKey |-> FALSE, maxRetries |-> 0, strictValidation |-> TRUE,
   retryCount |-> 0, localRetryCount |-> 0, attempts |-> 0, failures |-> 0,
   lastFailure |-> "", result |-> NoAiResult]

\* the module-level objects of config/index.ts as they are after the module
\* is loaded
DEFAULT_AI_CONFIG ==
  [api_key |-> "", model_name |-> "gemini-1.5-pro-latest",
   prompt_template_path |-> "./prompts/collection_generator.txt"]
DEFAULT_OUTPUT_CONFIG == [default_filename |-> "postman_collection.json"]
DEFAULT_FILTER_CONFIG == [allowed_hosts |-> <<>>]

\* no assignment attempted, applyDefaultValues not called
NoAssignment == [done |-> FALSE, target |-> "", field |-> "", threw |-> FALSE]
NoLoaded == [done |-> FALSE, partial |-> "", ai |-> <<>>, output |-> <<>>, filter |-> <<>>]

\* ai, output and filter are the three objects DEFAULT_CONFIG refers to;
\* defaultConfig is a frozen object whose properties refer to the same three
NoCfg ==
  [ai |-> DEFAULT_AI_CONFIG, output |-> DEFAULT_OUTPUT_CONFIG,
   filter |-> DEFAULT_FILTER_CONFIG, assigns |-> 0, last |-> NoAssignment,
   loaded |-> NoLoaded]

\* assignments a caller can attempt through the exported defaultConfig:
\* defaultConfig.<field> = .. and defaultConfig.<target>.<field> = ..
Assignments ==
  [target : {"defaultConfig"}, field : {"ai", "output", "filter"}]
    \cup [target : {"ai"}, field : DOMAIN DEFAULT_AI_CONFIG]
    \cup [target : {"output"}, field : DOMAIN DEFAULT_OUTPUT_CONFIG]
    \cup [target : {"filter"}, field : DOMAIN DEFAULT_FILTER_CONFIG]

\* the value assigned: a string, for allowed_hosts a list
Modified(field) == IF field = "allowed_hosts" THEN <<"modified">> ELSE "modified"

\* contents of config.yaml as loadYamlFile returns them, by name
PartialConfigs == {"empty", "key", "hosts"}
PartialAi(partial) == IF partial = "key" THEN [api_key |-> "k"] ELSE <<>>
PartialOutput(partial) == <<>>
PartialFilter(partial) == IF partial = "hosts" THEN [allowed_hosts |-> <<"api">>] ELSE <<>>

\* the state after construction of a BrowserController with the given hosts
CapInit(hosts) ==
  /\ allowedHosts = hosts
  /\ pc = "idle"
  /\ cleaner = "none"
  /\ browser = 0 /\ context = 0 /\ page = 0
  /\ capturedLogs = <<>>
  /\ isCapturing = FALSE
  /\ logCounter = 0
  /\ pending = {}
  /\ result = NoResult
  /\ rejected = FALSE
  /\ callNo = 0 /\ events = 0 /\ cleanups = 0
  /\ observed = <<>>
  /\ acquired = [k \in Kinds |-> {}]
  /\ closeCalls = [k \in Kinds |-> [c \in Calls |-> 0]]
  /\ doneBeforeSignal = <<>>
  /\ inflightAtSignal = {}
  /\ reached = "init"

\* ------------------------------------------------------------------------
\* Capture Session: BrowserController.captureNetworkLogs, cleanup and the
\* response listener.
\*
\* One action is one event-loop task together with the promise continuations
\* (microtasks) it makes runnable: JavaScript runs these to completion before
\* the next I/O event is dispatched.  The awaits on the browser (launch,
\* newContext, newPage, goto, close, response.text()) and on the terminal
\* (readline) are the points where other events can interleave.
\* ------------------------------------------------------------------------
createBrowserError(code, message) ==
  [instanceOfError |-> FALSE, code |-> code, message |-> message]

\* error instanceof Error ? error.message : String(error)
ErrorMessageOf(error) ==
  IF error.instanceOfError THEN error.message ELSE "[object Object]"

CountBff(logs) == Cardinality({i \in 1..Len(logs) : logs[i].isBffBlockApi})

\* SuccessResult that reports success only when something was captured
SuccessResult_requiresLogs(logs, call) ==
  [state |-> "pending", success |-> Len(logs) > 0, logs |-> logs,
   totalRequests |-> Len(logs), filteredRequests |-> CountBff(logs),
   hasError |-> FALSE, error |-> "",
   raised |-> "", call |-> call]

\* the result object built after the stop signal
SuccessResult(logs, call) ==
  [state |-> "pending", success |-> TRUE, logs |-> logs, totalRequests |-> Len(logs),
   filteredRequests |-> CountBff(logs), hasError |-> FALSE, error |-> "",
   raised |-> "", call |-> call]

\* the result object built by the catch block; raised records the message of
\* the error that was caught, next to what the code stores in error
FailureResult(error, call) ==
  [state |-> "pending", success |-> FALSE, logs |-> <<>>, totalRequests |-> 0,
   filteredRequests |-> 0, hasError |-> TRUE, error |-> ErrorMessageOf(error),
   raised |-> error.message,
   call |-> call]

\* ReturnedLogs for logs: this.capturedLogs, the buffer itself instead of a copy
ReturnedLogs_alias(snapshot, buffer) == buffer

\* logs: [...this.capturedLogs] is a copy: what the caller finds in result.logs
\* is the snapshot taken when the result was built, whatever the buffer holds by
\* the time the call returns
ReturnedLogs(snapshot, buffer) == snapshot

\* CleanupCatch that rethrows the error
CleanupCatch_rethrow(error) == "rethrown"

\* the catch block of cleanup
CleanupCatch(error) == "swallowed"

\* cleanup: the close() to await next, "cleaned" when nothing is left
AfterContext(br) == IF br # 0 THEN "closeBrowser" ELSE "cleaned"
AfterPage(ctx, br) == IF ctx # 0 THEN "closeContext" ELSE AfterContext(br)
CleanupEntry(pg, ctx, br) == IF pg # 0 THEN "closePage" ELSE AfterPage(ctx, br)

KindOf(position) ==
  CASE position = "closePage" -> "page"
    [] position = "closeContext" -> "context"
    [] OTHER -> "browser"

HandleOf(position, pg, ctx, br) ==
  CASE position = "closePage" -> pg
    [] position = "closeContext" -> ctx
    [] OTHER -> br

\* cleanup moves on to position nxt: it calls the next close() or is over, and
\* then the caller resumes: captureNetworkLogs returns res (or rejects when
\* cleanup threw), a public cleanup() call just ends
CleanupStep(who, nxt, thrown, res, pg, ctx, br) ==
  /\ pc' = IF nxt = "cleaned" THEN "idle" ELSE nxt
  /\ cleaner' = IF nxt = "cleaned" THEN "none" ELSE who
  /\ closeCalls' =
       IF nxt = "cleaned" THEN closeCalls
       ELSE [closeCalls EXCEPT ![KindOf(nxt)][HandleOf(nxt, pg, ctx, br)] = @ + 1]
  /\ result' =
       IF nxt = "cleaned" /\ who = "capture"
       THEN IF thrown
            THEN [res EXCEPT !.state = "rejected"]
            ELSE [res EXCEPT !.state = "returned",
                             !.logs = ReturnedLogs(res.logs, capturedLogs)]
       ELSE res
  /\ rejected' = (rejected \/ (nxt = "cleaned" /\ who = "capture" /\ thrown))

\* the catch block of captureNetworkLogs without its finally block
FailCapture_noFinally(error, pg, ctx, br) ==
  /\ isCapturing' = FALSE
  /\ CleanupStep("capture", "cleaned", FALSE, FailureResult(error, callNo), pg, ctx, br)

\* the catch block and the finally block of captureNetworkLogs
FailCapture(error, pg, ctx, br) ==
  /\ isCapturing' = FALSE
  /\ CleanupStep("capture", CleanupEntry(pg, ctx, br), FALSE,
                 FailureResult(error, callNo), pg, ctx, br)

BrowserInitError == createBrowserError("BROWSER_INIT_ERROR", "Failed to initialize browser")
NavigationError == createBrowserError("NAVIGATION_ERROR", "Failed to navigate to URL")

\* captureNetworkLogs(url) is called: state reset, chromium.launch() awaited
StartCaptureWithin(maxCalls) ==
  /\ pc = "idle"
  /\ callNo < maxCalls
  /\ callNo' = callNo + 1
  /\ capturedLogs' = <<>>
  /\ logCounter' = 0
  /\ isCapturing' = FALSE
  /\ result' = [NoResult EXCEPT !.call = callNo + 1]
  /\ doneBeforeSignal' = <<>>
  /\ inflightAtSignal' = {}
  /\ reached' = "init"
  /\ pc' = "launch"
  /\ UNCHANGED <<allowedHosts, cleaner, browser, context, page, pending, rejected,
                 events, observed, cleanups, acquired, closeCalls, pureVars>>

StartCapture == StartCaptureWithin(MaxCalls)

\* captureNetworkLogs called on a controller that has served earlier calls
StartCaptureReused == StartCaptureWithin(MaxReuseCalls)

\* chromium.launch() resolves; browser.newContext() awaited
LaunchOk ==
  /\ pc = "launch"
  /\ browser' = callNo
  /\ acquired' = [acquired EXCEPT !.browser = @ \cup {callNo}]
  /\ pc' = "newContext"
  /\ UNCHANGED <<allowedHosts, cleaner, context, page, capturedLogs, isCapturing,
                 logCounter, pending, result, rejected, callNo, events, observed, cleanups,
                 closeCalls, doneBeforeSignal, inflightAtSignal, reached,
                 pureVars>>

\* browser.newContext() resolves; context.newPage() awaited
NewContextOk ==
  /\ pc = "newContext"
  /\ context' = callNo
  /\ acquired' = [acquired EXCEPT !.context = @ \cup {callNo}]
  /\ pc' = "newPage"
  /\ UNCHANGED <<allowedHosts, cleaner, browser, page, capturedLogs, isCapturing,
                 logCounter, pending, result, rejected, callNo, events, observed, cleanups,
                 closeCalls, doneBeforeSignal, inflightAtSignal, reached,
                 pureVars>>

\* the target urls that new URL(url) in navigateToUrl accepts, and the others
ValidTargets == {url \in CaptureTargets : NewURL(Render(url)).ok}
InvalidTargets == CaptureTargets \ ValidTargets

\* context.newPage() resolves; setupNetworkCapture registers the listener;
\* navigateToUrl validates the url and awaits page.goto()
NewPageOk ==
  /\ pc = "newPage"
  /\ \E url \in ValidTargets : TRUE
  /\ page' = callNo
  /\ acquired' = [acquired EXCEPT !.page = @ \cup {callNo}]
  /\ pc' = "navigate"
  /\ UNCHANGED <<allowedHosts, cleaner, browser, context, capturedLogs,
                 isCapturing, logCounter, pending, result, rejected, callNo, events, observed,
                 cleanups, closeCalls, doneBeforeSignal, inflightAtSignal,
                 reached, pureVars>>

\* as NewPageOk, but new URL(url) throws in navigateToUrl
NewPageBadUrl ==
  /\ pc = "newPage"
  /\ \E url \in InvalidTargets : TRUE
  /\ page' = callNo
  /\ acquired' = [acquired EXCEPT !.page = @ \cup {callNo}]
  /\ FailCapture(NavigationError, callNo, context, browser)
  /\ UNCHANGED <<allowedHosts, browser, context, capturedLogs, logCounter,
                 pending, callNo, events, observed, cleanups, doneBeforeSignal, inflightAtSignal, reached, pureVars>>

\* launch, newContext or newPage rejects
InitFail ==
  /\ pc \in {"launch", "newContext", "newPage"}
  /\ FailCapture(BrowserInitError, page, context, browser)
  /\ UNCHANGED <<allowedHosts, browser, context, page, capturedLogs, logCounter,
                 pending, callNo, events, observed, cleanups, acquired, doneBeforeSignal,
                 inflightAtSignal, reached, pureVars>>

\* page.goto() resolves: capture starts, the wait for Enter begins
NavOk ==
  /\ pc = "navigate"
  /\ isCapturing' = TRUE
  /\ reached' = "capturing"
  /\ pc' = "waiting"
  /\ UNCHANGED <<allowedHosts, cleaner, browser, context, page, capturedLogs,
                 logCounter, pending, result, rejected, callNo, events, observed, cleanups,
                 acquired, closeCalls, doneBeforeSignal, inflightAtSignal,
                 pureVars>>

\* page.goto() rejects
NavFail ==
  /\ pc = "navigate"
  /\ FailCapture(NavigationError, page, context, browser)
  /\ UNCHANGED <<allowedHosts, browser, context, page, capturedLogs, logCounter,
                 pending, callNo, events, observed, cleanups, acquired, doneBeforeSignal,
                 inflightAtSignal, reached, pureVars>>

\* the user presses Enter: capture stops, the result is built, cleanup starts
StopSignal ==
  /\ pc = "waiting"
  /\ isCapturing' = FALSE
  /\ reached' = "signalled"
  /\ inflightAtSignal' = {h.id : h \in pending}
  /\ CleanupStep("capture", CleanupEntry(page, context, browser), FALSE,
                 SuccessResult(capturedLogs, callNo), page, context, browser)
  /\ UNCHANGED <<allowedHosts, browser, context, page, capturedLogs, logCounter,
                 pending, callNo, events, observed, cleanups, acquired, doneBeforeSignal, pureVars>>

\* the awaited close() resolves: the field is set to null, cleanup goes on
CloseOk ==
  /\ pc \in {"closePage", "closeContext", "closeBrowser"}
  /\ page' = IF pc = "closePage" THEN 0 ELSE page
  /\ context' = IF pc = "closeContext" THEN 0 ELSE context
  /\ browser' = IF pc = "closeBrowser" THEN 0 ELSE browser
  /\ CleanupStep(cleaner,
                 CASE pc = "closePage" -> AfterPage(context, browser)
                   [] pc = "closeContext" -> AfterContext(browser)
                   [] OTHER -> "cleaned",
                 FALSE, result, page, context, browser)
  /\ UNCHANGED <<allowedHosts, capturedLogs, isCapturing, logCounter, pending,
                 callNo, events, observed, cleanups, acquired, doneBeforeSignal, inflightAtSignal, reached, pureVars>>

\* the awaited close() rejects: the catch block of cleanup ends cleanup
CloseFail ==
  /\ pc \in {"closePage", "closeContext", "closeBrowser"}
  /\ CleanupStep(cleaner, "cleaned", CleanupCatch(pc) = "rethrown", result,
                 page, context, browser)
  /\ UNCHANGED <<allowedHosts, browser, context, page, capturedLogs, isCapturing,
                 logCounter, pending, callNo, events, observed, cleanups, acquired,
                 doneBeforeSignal, inflightAtSignal, reached, pureVars>>

\* the public cleanup() is called while no capture call is running; with all
\* three fields null the call changes nothing (isCapturing is false already)
PublicCleanup ==
  /\ pc = "idle"
  /\ CleanupEntry(page, context, browser) # "cleaned"
  /\ cleanups < MaxCleanups
  /\ cleanups' = cleanups + 1
  /\ isCapturing' = FALSE
  /\ CleanupStep("public", CleanupEntry(page, context, browser), FALSE, result,
                 page, context, browser)
  /\ UNCHANGED <<allowedHosts, browser, context, page, capturedLogs, logCounter,
                 pending, callNo, events, observed, acquired, doneBeforeSignal, inflightAtSignal, reached, pureVars>>

\* the page emits 'response' events from its creation until it is closed
PageEmits ==
  /\ pc \in {"navigate", "waiting", "closePage"}
  /\ page # 0
  /\ events < MaxResponses

\* what the listener finds when a response event reaches it
Observation == [at |-> pc, capturing |-> isCapturing, call |-> callNo]

\* the listener's first statement: return unless this.isCapturing
ListenerDrops_never(capturing) == FALSE

ListenerDrops(capturing) == ~capturing

\* a response arrives while isCapturing is false: the listener returns at once
ResponseIgnored ==
  /\ PageEmits
  /\ ListenerDrops(isCapturing)
  /\ events' = events + 1
  /\ observed' = Append(observed, Observation)
  /\ UNCHANGED <<allowedHosts, pc, cleaner, browser, context, page, capturedLogs,
                 isCapturing, logCounter, pending, result, rejected, callNo, cleanups,
                 acquired, closeCalls, doneBeforeSignal, inflightAtSignal,
                 reached, pureVars>>

\* a response arrives and shouldCaptureResponse rejects it:
\* processNetworkResponse returns null
ResponseFiltered ==
  /\ PageEmits
  /\ ~ListenerDrops(isCapturing)
  /\ \E x \in 1..Len(Exchanges) : ~shouldCaptureResponse(Exchanges[x], allowedHosts).val
  /\ events' = events + 1
  /\ observed' = Append(observed, Observation)
  /\ UNCHANGED <<allowedHosts, pc, cleaner, browser, context, page, capturedLogs,
                 isCapturing, logCounter, pending, result, rejected, callNo, cleanups,
                 acquired, closeCalls, doneBeforeSignal, inflightAtSignal,
                 reached, pureVars>>

\* a response arrives and passes the filter: the handler awaits response.text()
ResponseAccepted ==
  /\ PageEmits
  /\ ~ListenerDrops(isCapturing)
  /\ \E x \in 1..Len(Exchanges) :
       /\ shouldCaptureResponse(Exchanges[x], allowedHosts).val
       /\ pending' = pending \cup {[id |-> events + 1, ex |-> x, call |-> callNo]}
  /\ events' = events + 1
  /\ observed' = Append(observed, Observation)
  /\ UNCHANGED <<allowedHosts, pc, cleaner, browser, context, page, capturedLogs,
                 isCapturing, logCounter, result, rejected, callNo, cleanups, acquired,
                 closeCalls, doneBeforeSignal, inflightAtSignal, reached,
                 pureVars>>

\* the log entry built by processNetworkResponse
LogEntry(h, responseBody, readOk) ==
  [id |-> h.id, logNo |-> logCounter + 1, ex |-> h.ex, call |-> h.call,
   method |-> Exchanges[h.ex].method, url |-> Exchanges[h.ex].url,
   body |-> responseBody, readOk |-> readOk,
   isBffBlockApi |-> isBffBlockApiPattern(Exchanges[h.ex].url).val]

\* the rest of the handler after await response.text(): the entry is pushed
PushEntry(h, logEntry) ==
  /\ pending' = pending \ {h}
  /\ logCounter' = logCounter + 1
  /\ capturedLogs' = Append(capturedLogs, logEntry)
  /\ doneBeforeSignal' =
       IF pc \in {"launch", "newContext", "newPage", "navigate", "waiting"}
       THEN Append(doneBeforeSignal, h.id)
       ELSE doneBeforeSignal
  /\ UNCHANGED <<allowedHosts, pc, cleaner, browser, context, page, isCapturing,
                 result, rejected, callNo, events, observed, cleanups, acquired, closeCalls,
                 inflightAtSignal, reached, pureVars>>

\* response.text() resolves with the body
BodyRead == \E h \in pending : PushEntry(h, LogEntry(h, Exchanges[h.ex].body, TRUE))

\* response.text() rejects: the inner catch sets responseBody = ''
BodyReadFailed == \E h \in pending : PushEntry(h, LogEntry(h, <<>>, FALSE))

Init ==
  /\ \E hosts \in CaptureConfigs : CapInit(hosts)
  /\ fcall = NoFcall
  /\ ncall = NoNcall
  /\ scall = NoScall
  /\ cli = NoCli
  /\ dcall = NoDcall
  /\ cfg = NoCfg
  /\ ai = NoAi

Next ==
  \/ StartCapture
  \/ LaunchOk
  \/ NewContextOk
  \/ NewPageOk
  \/ NewPageBadUrl
  \/ InitFail
  \/ NavOk
  \/ NavFail
  \/ StopSignal
  \/ CloseOk
  \/ CloseFail
  \/ PublicCleanup
  \/ ResponseIgnored
  \/ ResponseFiltered
  \/ ResponseAccepted
  \/ BodyRead
  \/ BodyReadFailed

Spec == Init /\ [][Next]_vars

\* the browser operation the running call or cleanup awaits settles
BrowserOperationSettles ==
  \/ LaunchOk
  \/ NewContextOk
  \/ NewPageOk
  \/ NewPageBadUrl
  \/ InitFail
  \/ NavOk
  \/ NavFail
  \/ CloseOk
  \/ CloseFail

\* every awaited browser operation eventually resolves or rejects, and the
\* user eventually presses Enter; nothing is assumed of response.text()
CaptureFairness == WF_vars(BrowserOperationSettles) /\ WF_vars(StopSignal)

SpecLive == Spec /\ CaptureFairness

\* one controller serving up to MaxReuseCalls captureNetworkLogs calls
ReuseNext ==
  \/ StartCaptureReused
  \/ LaunchOk
  \/ NewContextOk
  \/ NewPageOk
  \/ NewPageBadUrl
  \/ InitFail
  \/ NavOk
  \/ NavFail
  \/ StopSignal
  \/ CloseOk
  \/ CloseFail
  \/ PublicCleanup
  \/ ResponseIgnored
  \/ ResponseFiltered
  \/ ResponseAccepted
  \/ BodyRead
  \/ BodyReadFailed

SpecReuse == Init /\ [][ReuseNext]_vars

\* ------------------------------------------------------------------------
\* Specification of the filter and the classifier as functions
\* ------------------------------------------------------------------------
HostUrls == UrlParts(SchemeParts, HostParts, {PNone, PUsers}, {QNone}, {FNone})
ClassUrls == UrlParts(SchemeParts, {HApi, HPort, HSpace}, PathParts, QueryParts, FragParts)

CallIsHostAllowed ==
  /\ fcall.op = "none"
  /\ UNCHANGED <<capVars, ncall, scall, cli, ai, cfg, dcall>>
  /\ \E u \in HostUrls, h \in AllowedHostConfigs :
     fcall' = [NoFcall EXCEPT !.op = "isHostAllowed", !.url = u, !.hosts = h,
                              !.ret = isHostAllowed(Render(u), h)]

CallShouldCaptureResponse ==
  /\ fcall.op = "none"
  /\ UNCHANGED <<capVars, ncall, scall, cli, ai, cfg, dcall>>
  /\ \E u \in HostUrls, h \in AllowedHostConfigs, ct \in ContentTypes,
     rt \in ResourceTypes, m \in Methods :
     LET response == Exchange(u, ct, rt, m, <<>>)
     IN fcall' = [NoFcall EXCEPT !.op = "shouldCaptureResponse", !.url = u, !.hosts = h,
                                 !.response = response,
                                 !.ret = shouldCaptureResponse(response, h)]

CallIsBffBlockApiPattern ==
  /\ fcall.op = "none"
  /\ UNCHANGED <<capVars, ncall, scall, cli, ai, cfg, dcall>>
  /\ \E u \in ClassUrls :
     fcall' = [NoFcall EXCEPT !.op = "isBffBlockApiPattern", !.url = u,
                              !.ret = isBffBlockApiPattern(Render(u))]

CallDataProcessorIsBffBlockApiPattern ==
  /\ fcall.op = "none"
  /\ UNCHANGED <<capVars, ncall, scall, cli, ai, cfg, dcall>>
  /\ \E u \in ClassUrls :
     fcall' = [NoFcall EXCEPT !.op = "DataProcessor.isBffBlockApiPattern", !.url = u,
                              !.ret = DataProcessor_isBffBlockApiPattern(Log(<<"GET">>, u, <<>>))]

FilterInit == CapInit(<<>>) /\ fcall = NoFcall /\ ncall = NoNcall /\ scall = NoScall /\ cli = NoCli /\ ai = NoAi /\ cfg = NoCfg /\ dcall = NoDcall

FilterNext ==
  \/ CallIsHostAllowed
  \/ CallShouldCaptureResponse
  \/ CallIsBffBlockApiPattern
  \/ CallDataProcessorIsBffBlockApiPattern

SpecFilter == FilterInit /\ [][FilterNext]_vars

\* ------------------------------------------------------------------------
\* Specification of the normalizer as a function
\* ------------------------------------------------------------------------
CallProcessNetworkLogs ==
  /\ ncall.op = "none"
  /\ UNCHANGED <<capVars, fcall, scall, cli, ai, cfg, dcall>>
  /\ \E logs \in LogLists, options \in ProcessingOptions :
     ncall' = [op |-> "processNetworkLogs", logs |-> logs, options |-> options,
               out |-> processNetworkLogs(logs, options)]

NormInit == CapInit(<<>>) /\ fcall = NoFcall /\ ncall = NoNcall /\ scall = NoScall /\ cli = NoCli /\ ai = NoAi /\ cfg = NoCfg /\ dcall = NoDcall

NormNext == CallProcessNetworkLogs

SpecNorm == NormInit /\ [][NormNext]_vars

\* ------------------------------------------------------------------------
\* Specification of the serializer as a function: serializeForAI is called on
\* a collection, and later once more on the same collection, possibly on
\* another processor
\* ------------------------------------------------------------------------
CallSerializeForAI ==
  /\ scall.op = "none"
  /\ UNCHANGED <<capVars, fcall, ncall, cli, ai, cfg, dcall>>
  /\ \E processedData \in ApiLists, options \in SerializerInstances, now \in 1..MaxClock :
     scall' = [op |-> "serializeForAI", input |-> processedData,
               first |-> Outcome(processedData, options, now), second |-> NoOutcome]

CallSerializeForAIAgain ==
  /\ scall.op = "serializeForAI"
  /\ ~scall.second.done
  /\ UNCHANGED <<capVars, fcall, ncall, cli, ai, cfg, dcall>>
  /\ \E options \in SerializerInstances, now \in scall.first.now..MaxClock :
     scall' = [scall EXCEPT !.second = Outcome(scall.input, options, now)]

SerInit == CapInit(<<>>) /\ fcall = NoFcall /\ ncall = NoNcall /\ scall = NoScall /\ cli = NoCli /\ ai = NoAi /\ cfg = NoCfg /\ dcall = NoDcall

SerNext ==
  \/ CallSerializeForAI
  \/ CallSerializeForAIAgain

SpecSer == SerInit /\ [][SerNext]_vars

\* ------------------------------------------------------------------------
\* Specification of the document generator as a function
\* ------------------------------------------------------------------------
CallGenerateDocumentation ==
  /\ dcall.op = "none"
  /\ UNCHANGED <<capVars, fcall, ncall, scall, cli, ai, cfg>>
  /\ \E processedData \in DocApiLists, options \in DocumentOptions, written \in BOOLEAN :
     dcall' = [op |-> "generateDocumentation", input |-> processedData, options |-> options,
               ret |-> DocumentGenerator_generateDocumentation(processedData, options, 1,
                                                                written)]

DocInit == CapInit(<<>>) /\ fcall = NoFcall /\ ncall = NoNcall /\ scall = NoScall /\ cli = NoCli /\ ai = NoAi /\ cfg = NoCfg /\ dcall = NoDcall

DocNext == CallGenerateDocumentation

SpecDoc == DocInit /\ [][DocNext]_vars

\* ------------------------------------------------------------------------
\* The command-line programs: NetworkCaptureCLI.run and MockGenCLI.run.
\* One action per awaited step of run(); a step that throws is caught by
\* run(), which displays the error and calls process.exit(1).
\* ------------------------------------------------------------------------
CliStep(next) == [cli EXCEPT !.pc = next]

\* catch (error) { this.displayError(error); process.exit(1); }
CliExit(code, fault) ==
  [cli EXCEPT !.pc = "exited", !.error = code, !.exitCode = 1, !.fault = @ \/ fault]

CliGetUserUrl ==
  /\ cli.pc = "getUserUrl"
  /\ UNCHANGED <<capVars, fcall, ncall, scall, ai, cfg, dcall>>
  /\ \E input \in {"url", "EMPTY_URL", "INVALID_URL", "GUM_ERROR"} :
     cli' = IF input = "url" THEN CliStep("loadConfiguration") ELSE CliExit(input, TRUE)

CliLoadConfiguration ==
  /\ cli.pc = "loadConfiguration"
  /\ UNCHANGED <<capVars, fcall, ncall, scall, ai, cfg, dcall>>
  /\ \E loaded \in BOOLEAN :
     cli' = IF loaded THEN CliStep("captureNetworkLogs")
            ELSE CliExit("CONFIG_LOAD_FAILED", TRUE)

\* result is what browserController.captureNetworkLogs(url) resolves to
CliCaptureNetworkLogs ==
  /\ cli.pc = "captureNetworkLogs"
  /\ UNCHANGED <<capVars, fcall, ncall, scall, ai, cfg, dcall>>
  /\ \E success \in BOOLEAN, logs \in CliLogLists :
     /\ ~success => logs = <<>>
     /\ cli' = IF ~success THEN CliExit("CAPTURE_FAILED", TRUE)
               ELSE [cli EXCEPT !.pc = "selectUrlsToProcess", !.captured = TRUE,
                                !.logs = logs]

\* extractUniqueUrls(logs), as a set
extractUniqueUrls(logs) == {logs[i].url : i \in 1..Len(logs)}

\* what selectUrlsToProcess returns for the user's choice in gum: nothing
\* captured gives [], a cancelled or empty choice or "Select All" gives all
\* logs, otherwise the logs of the chosen URLs
SelectedLogs(logs, choice, selectedUrls) ==
  IF Len(logs) = 0 THEN <<>>
  ELSE IF choice \in {"cancelled", "none", "all"} THEN logs
       ELSE SelectSeq(logs, LAMBDA log : log.url \in selectedUrls)

CliSelectUrlsToProcess ==
  /\ cli.pc = "selectUrlsToProcess"
  /\ UNCHANGED <<capVars, fcall, ncall, scall, ai, cfg, dcall>>
  /\ \E choice \in {"cancelled", "none", "all", "some"} :
     \E selectedUrls \in SUBSET extractUniqueUrls(cli.logs) :
       /\ choice = "some" <=> selectedUrls # {}
       /\ cli' = [cli EXCEPT !.pc = "processNetworkData",
                             !.selectedLogs = SelectedLogs(cli.logs, choice, selectedUrls)]

\* a Record<string, string> as the object JSON.stringify walks: its keys in
\* the order in which extractQueryParams first set them
FirstSet(pairs) ==
  SelectSeq([i \in 1..Len(pairs) |-> i],
            LAMBDA i : \A j \in 1..(i - 1) : pairs[j].name # pairs[i].name)

ParamsObject(url, params) ==
  IF ~NewURL(url).ok THEN JsObject(<<>>)
  ELSE JsObject([k \in 1..Len(FirstSet(SearchParams(NewURL(url).search))) |->
         Member(SearchParams(NewURL(url).search)[FirstSet(SearchParams(NewURL(url).search))[k]].name,
                params[SearchParams(NewURL(url).search)[FirstSet(SearchParams(NewURL(url).search))[k]].name])])

\* an endpoint built by processNetworkLogs as serializeForAI receives it
ProcessedApi(e) ==
  Api(JsString(e.method), JsString(e.url), JsString(e.responseBody),
      ParamsObject(e.url, e.queryParams), JsObject(<<>>), JsUndefined)

\* processNetworkData: the processor's result, then its serialization
CliProcessed(processingResult) ==
  IF ~processingResult.success THEN CliExit("PROCESSING_FAILED", FALSE)
  ELSE IF serializeForAI([i \in 1..Len(processingResult.processedData) |->
                            ProcessedApi(processingResult.processedData[i])],
                         CliProcessingOptions, 1).threw
       THEN CliExit("SERIALIZATION_ERROR", FALSE)
       ELSE [cli EXCEPT
               !.pc = IF cli.command = "NetworkCaptureCLI" THEN "getDocumentationFormat"
                      ELSE "generatePostmanCollection",
               !.serialized =
                  serializeForAI([i \in 1..Len(processingResult.processedData) |->
                                    ProcessedApi(processingResult.processedData[i])],
                                 CliProcessingOptions, 1).text]

CliProcessNetworkData ==
  /\ cli.pc = "processNetworkData"
  /\ UNCHANGED <<capVars, fcall, ncall, scall, ai, cfg, dcall>>
  /\ cli' = CliProcessed(processNetworkLogs(cli.selectedLogs, CliProcessingOptions))

\* a cancelled or unrecognised choice falls back to markdown
CliGetDocumentationFormat ==
  /\ cli.pc = "getDocumentationFormat"
  /\ cli.command = "NetworkCaptureCLI"
  /\ UNCHANGED <<capVars, fcall, ncall, scall, ai, cfg, dcall>>
  /\ \E format \in Formats :
     cli' = [cli EXCEPT !.pc = "generateDocumentation", !.format = format]

\* DocumentGenerator.generateDocumentation: success of the result; written
\* tells whether fs.writeFileSync went through
generateDocumentation(processedData, written) ==
  IF Len(processedData) = 0
  THEN [success |-> FALSE, error |-> "No API data provided for documentation generation"]
  ELSE IF ~written THEN [success |-> FALSE, error |-> "writeFileSync"]
       ELSE [success |-> TRUE, error |-> ""]

\* AiGenerator.generatePostmanCollection: success of the result; answered
\* tells whether the AI service produced a valid collection within the retries
generatePostmanCollection(apiData, answered) ==
  IF Len(apiData) = 0
  THEN [success |-> FALSE, error |-> "No API data provided for collection generation"]
  ELSE IF ~answered THEN [success |-> FALSE, error |-> "AI"]
       ELSE [success |-> TRUE, error |-> ""]

CliGenerated(parsed, generated, failure, next, environment) ==
  IF ~parsed.ok THEN CliExit("SyntaxError", FALSE)
  ELSE IF ~generated.success
       THEN CliExit(failure, Len(parsed.val) > 0 /\ ~environment)
       ELSE [cli EXCEPT !.pc = next, !.saved = (next = "completed"),
                        !.exitCode = IF next = "completed" THEN 0 ELSE @]

\* NetworkCaptureCLI.generateDocumentation: JSON.parse of the serialized
\* data, then the document generator, which also saves the file
CliGenerateDocumentation ==
  /\ cli.pc = "generateDocumentation"
  /\ UNCHANGED <<capVars, fcall, ncall, scall, ai, cfg, dcall>>
  /\ \E written \in BOOLEAN :
     cli' = CliGenerated(JsonParse(cli.serialized),
                         generateDocumentation(JsonParse(cli.serialized).val, written),
                         "DOCUMENTATION_FAILED", "completed", written)

\* MockGenCLI.generatePostmanCollection
CliGeneratePostmanCollection ==
  /\ cli.pc = "generatePostmanCollection"
  /\ cli.command = "MockGenCLI"
  /\ UNCHANGED <<capVars, fcall, ncall, scall, ai, cfg, dcall>>
  /\ \E answered \in BOOLEAN :
     cli' = CliGenerated(JsonParse(cli.serialized),
                         generatePostmanCollection(JsonParse(cli.serialized).val, answered),
                         "AI_GENERATION_FAILED", "saveCollectionToFile", answered)

\* MockGenCLI.saveCollectionToFile
CliSaveCollectionToFile ==
  /\ cli.pc = "saveCollectionToFile"
  /\ UNCHANGED <<capVars, fcall, ncall, scall, ai, cfg, dcall>>
  /\ \E written \in BOOLEAN :
     cli' = IF written THEN [cli EXCEPT !.pc = "completed", !.saved = TRUE, !.exitCode = 0]
            ELSE CliExit("FILE_SAVE_FAILED", TRUE)

CliInit ==
  /\ CapInit(<<>>) /\ fcall = NoFcall /\ ncall = NoNcall /\ scall = NoScall /\ ai = NoAi /\ cfg = NoCfg /\ dcall = NoDcall
  /\ \E command \in Commands : cli = NewCli(command)

CliNext ==
  \/ CliGetUserUrl
  \/ CliLoadConfiguration
  \/ CliCaptureNetworkLogs
  \/ CliSelectUrlsToProcess
  \/ CliProcessNetworkData
  \/ CliGetDocumentationFormat
  \/ CliGenerateDocumentation
  \/ CliGeneratePostmanCollection
  \/ CliSaveCollectionToFile

SpecCli == CliInit /\ [][CliNext]_vars

\* ------------------------------------------------------------------------
\* AiGenerator.generatePostmanCollection and callGeminiApi.
\* One action per macrotask: the call up to its first await, the settling of
\* model.generateContent, the firing of the retry timer.
\* ------------------------------------------------------------------------
\* return { success, error, retryCount: retryCount } of generatePostmanCollection
AiReturn(a, success, error) ==
  [a EXCEPT !.pc = "returned",
            !.result = [done |-> TRUE, threw |-> FALSE, success |-> success,
                        error |-> error, retryCount |-> a.localRetryCount]]

\* the catch block of generatePostmanCollection: a thrown AppError is a plain
\* object, so errorMessage is String(error)
AiCatch(a, code) == AiReturn([a EXCEPT !.lastFailure = code], FALSE, "[object Object]")

\* RetryAllowed that allows a retry when retryCount equals maxRetries
RetryAllowed_inclusive(retryCount, maxRetries) == retryCount <= maxRetries

\* if (retryCount < this.options.maxRetries)
RetryAllowed(retryCount, maxRetries) == retryCount < maxRetries

\* callGeminiApi(prompt, retryCount) up to await model.generateContent(..)
callGeminiApi(a, retryCount) ==
  IF ~a.hasKey THEN AiCatch(a, "GEMINI_NOT_INITIALIZED")
  ELSE [a EXCEPT !.pc = "generateContent", !.retryCount = retryCount,
                 !.attempts = @ + 1]

\* generatePostmanCollection(apiData) is called on a generator constructed
\* with the given key and options; template tells what loadPromptTemplate finds
AiGeneratePostmanCollection ==
  /\ ai.pc = "idle"
  /\ UNCHANGED <<capVars, fcall, ncall, scall, cli, cfg, dcall>>
  /\ \E hasKey \in BOOLEAN, maxRetries \in 0..MaxRetries, strictValidation \in BOOLEAN,
        apiDataLength \in 0..1,
        template \in {"found", "PROMPT_TEMPLATE_NOT_FOUND", "EMPTY_PROMPT_TEMPLATE"} :
     ai' = IF apiDataLength = 0
           THEN AiReturn([NoAi EXCEPT !.hasKey = hasKey, !.maxRetries = maxRetries,
                                      !.strictValidation = strictValidation],
                         FALSE, "No API data provided for collection generation")
           ELSE IF template # "found"
                THEN AiCatch([NoAi EXCEPT !.hasKey = hasKey, !.maxRetries = maxRetries,
                                          !.strictValidation = strictValidation], template)
                ELSE callGeminiApi([NoAi EXCEPT !.hasKey = hasKey,
                                                !.maxRetries = maxRetries,
                                                !.strictValidation = strictValidation], 0)

\* model.generateContent resolves with text that is not blank: callGeminiApi
\* returns it and generatePostmanCollection validates it
AiContentGenerated ==
  /\ ai.pc = "generateContent"
  /\ UNCHANGED <<capVars, fcall, ncall, scall, cli, cfg, dcall>>
  /\ \E response \in {"collection", "json", "text"} :
     ai' = IF response = "collection" \/ (response = "json" /\ ~ai.strictValidation)
           THEN AiReturn(ai, TRUE, "")
           ELSE AiReturn(ai, FALSE, "AI response validation failed")

\* the catch block of callGeminiApi after an attempt failed: the retry timer
\* is set, or GEMINI_API_ERROR is thrown to generatePostmanCollection
AttemptFailed(a) ==
  IF RetryAllowed(a.retryCount, a.maxRetries)
  THEN [a EXCEPT !.pc = "retryDelay"]
  ELSE AiCatch(a, "GEMINI_API_ERROR")

\* model.generateContent rejects, or resolves with empty or blank text
\* (EMPTY_AI_RESPONSE is thrown inside the try block)
AiContentFailed ==
  /\ ai.pc = "generateContent"
  /\ UNCHANGED <<capVars, fcall, ncall, scall, cli, cfg, dcall>>
  /\ \E failure \in {"rejected", "EMPTY_AI_RESPONSE"} :
     ai' = AttemptFailed([ai EXCEPT !.failures = @ + 1, !.lastFailure = failure])

\* setTimeout(resolve, retryDelay) fires: return this.callGeminiApi(prompt, retryCount + 1)
AiRetryDelayElapsed ==
  /\ ai.pc = "retryDelay"
  /\ UNCHANGED <<capVars, fcall, ncall, scall, cli, cfg, dcall>>
  /\ ai' = callGeminiApi(ai, ai.retryCount + 1)

AiInit ==
  /\ CapInit(<<>>) /\ fcall = NoFcall /\ ncall = NoNcall /\ scall = NoScall /\ cli = NoCli /\ cfg = NoCfg /\ dcall = NoDcall
  /\ ai = NoAi

AiNext ==
  \/ AiGeneratePostmanCollection
  \/ AiContentGenerated
  \/ AiContentFailed
  \/ AiRetryDelayElapsed

SpecAi == AiInit /\ [][AiNext]_vars

\* the request to the AI service settles and the retry timer fires
AiFairness ==
  /\ WF_vars(AiContentGenerated \/ AiContentFailed)
  /\ WF_vars(AiRetryDelayElapsed)

SpecAiLive == SpecAi /\ AiFairness

\* ------------------------------------------------------------------------
\* The default configuration: defaultConfig = Object.freeze({ ...DEFAULT_CONFIG })
\* and applyDefaultValues.
\* ------------------------------------------------------------------------
\* Object.freeze freezes the object it is given and no object that one
\* refers to: only the copy made by the spread is frozen
Frozen(target) == target = "defaultConfig"

\* target.field = value in strict mode: TypeError on a frozen object
AssignDefaultConfig ==
  /\ cfg.assigns < MaxAssigns
  /\ UNCHANGED <<capVars, fcall, ncall, scall, cli, ai, dcall>>
  /\ \E a \in Assignments :
     cfg' = IF Frozen(a.target)
            THEN [cfg EXCEPT !.assigns = @ + 1,
                             !.last = [done |-> TRUE, target |-> a.target,
                                       field |-> a.field, threw |-> TRUE]]
            ELSE [cfg EXCEPT !.assigns = @ + 1,
                             ![a.target][a.field] = Modified(a.field),
                             !.last = [done |-> TRUE, target |-> a.target,
                                       field |-> a.field, threw |-> FALSE]]

\* { ...defaults, ...section }
Spread(defaults, section) ==
  [f \in DOMAIN defaults \cup DOMAIN section |->
     IF f \in DOMAIN section THEN section[f] ELSE defaults[f]]

\* applyDefaultValues(config), step 2 of loadConfig
applyDefaultValues(c, partial) ==
  [done |-> TRUE, partial |-> partial,
   ai |-> Spread(c.ai, PartialAi(partial)),
   output |-> Spread(c.output, PartialOutput(partial)),
   filter |-> Spread(c.filter, PartialFilter(partial))]

CallApplyDefaultValues ==
  /\ UNCHANGED <<capVars, fcall, ncall, scall, cli, ai, dcall>>
  /\ \E partial \in PartialConfigs :
     cfg' = [cfg EXCEPT !.loaded = applyDefaultValues(cfg, partial)]

CfgInit ==
  /\ CapInit(<<>>) /\ fcall = NoFcall /\ ncall = NoNcall /\ scall = NoScall /\ cli = NoCli /\ dcall = NoDcall
  /\ ai = NoAi
  /\ cfg = NoCfg

CfgNext ==
  \/ AssignDefaultConfig
  \/ CallApplyDefaultValues

SpecConfig == CfgInit /\ [][CfgNext]_vars

C7_MalformedUrlRejected ==
  (fcall.op = "shouldCaptureResponse" /\ ~Parseable(fcall.url)) =>
    (~fcall.ret.threw /\ ~fcall.ret.val)

\* C8: the block-API classifier never throws and returns true iff the URL
\* parses, its path contains "/blocks" and its query has a parameter named
\* "keys".
C8_ClassifierTotal ==
  fcall.op \in {"isBffBlockApiPattern", "DataProcessor.isBffBlockApiPattern"} =>
    /\ ~fcall.ret.threw
    /\ fcall.ret.val =
         (Parseable(fcall.url) /\ fcall.url.path.hasBlocks /\ fcall.url.query.hasKeys)

C8_Witness ==
  /\ fcall.op = "DataProcessor.isBffBlockApiPattern"
  /\ fcall.url.path = PBlocksmith
  /\ fcall.url.query = QPageKeys
  /\ fcall.url.frag = FKeys
  /\ fcall.ret.val

\* ------------------------------------------------------------------------
\* Properties of the normalizer (SpecNorm)
\* ------------------------------------------------------------------------
\* the endpoint identity of a log entry: (upper-cased method, hostname,
\* pathname), or the literal (method, url) pair when the URL does not parse
Identity(log) ==
  IF Parseable(log.parts)
  THEN [kind |-> "endpoint", method |-> ToUpperCase(log.method),
        hostname |-> JoinDots(log.parts.host.labels),
        rest |-> IF log.parts.path.str = <<>> THEN <<"/">> ELSE log.parts.path.str]
  ELSE [kind |-> "literal", method |-> log.method, hostname |-> <<>>, rest |-> log.url]

\* the exchanges that survive prioritization and the cap
Survivors == filterAndPrioritizeLogs(ncall.logs, ncall.options)

\* positions of Survivors at which an identity occurs for the first time
FirstSeen ==
  SelectSeq([i \in 1..Len(Survivors) |-> i],
            LAMBDA i : \A j \in 1..(i - 1) : Identity(Survivors[j]) # Identity(Survivors[i]))

\* endpoint e was built from a survivor with the identity of survivor i
BuiltFromIdentityOf(e, i) ==
  \E j \in 1..Len(Survivors) :
     /\ Identity(Survivors[j]) = Identity(Survivors[i])
     /\ e.url = Survivors[j].url
     /\ e.method = ToUpperCase(Survivors[j].method)
     /\ e.responseBody = Survivors[j].body

\* C9: with mergeDuplicates the output has exactly one endpoint per distinct
\* identity among the surviving exchanges, in first-seen order; without it,
\* one endpoint per surviving exchange, in order.
C9_OneEndpointPerIdentity ==
  ncall.op = "processNetworkLogs" =>
    LET out == ncall.out.processedData
    IN IF ncall.options.mergeDuplicates
       THEN /\ Len(out) = Len(FirstSeen)
            /\ \A k \in 1..Len(out) : BuiltFromIdentityOf(out[k], FirstSeen[k])
       ELSE /\ Len(out) = Len(Survivors)
            /\ \A k \in 1..Len(out) :
                 /\ out[k].url = Survivors[k].url
                 /\ out[k].method = ToUpperCase(Survivors[k].method)
                 /\ out[k].responseBody = Survivors[k].body

\* the merged groups of the last call
Groups == groupLogsByEndpoint(Survivors)

\* position in a group of its first member of maximal body length
Representative(logs) ==
  MinOf({i \in 1..Len(logs) : \A j \in 1..Len(logs) : Len(logs[j].body) <= Len(logs[i].body)})

\* the query parameters of a URL, known from its parts
QueryParamsOf(parts) == IF Parseable(parts) THEN parts.query.params ELSE <<>>

\* C10: the url, responseBody and queryParams of the endpoint of a merged
\* group all come from the member with the longest responseBody, the first
\* one seen among members of equal maximal length.
C10_RepresentativeLongestFirst ==
  (ncall.op = "processNetworkLogs" /\ ncall.options.mergeDuplicates) =>
    LET groups == Groups
    IN /\ Len(ncall.out.processedData) = Len(groups)
       /\ \A k \in 1..Len(groups) :
            LET rep == groups[k].logs[Representative(groups[k].logs)]
                e == ncall.out.processedData[k]
            IN /\ e.url = rep.url
               /\ e.responseBody = rep.body
               /\ e.queryParams = QueryParamsOf(rep.parts)

C10_Witness ==
  /\ ncall.op = "processNetworkLogs"
  /\ ncall.options.mergeDuplicates
  /\ \E k \in 1..Len(Groups) :
       LET logs == Groups[k].logs
       IN /\ Len(logs) >= 2
          /\ Representative(logs) = 1
          /\ Len(logs[2].body) = Len(logs[1].body)
          /\ logs[2].body # logs[1].body
          /\ ncall.out.processedData[k].responseBody = logs[1].body
          /\ ncall.out.processedData[k].url = logs[1].url

\* ------------------------------------------------------------------------
\* Properties of the capture session (Spec)
\* ------------------------------------------------------------------------
\* the call whose result is held in result has returned it to its caller
Returned == result.state = "returned"

\* ids of the entries of a list of log entries, in order
IdsOf(logs) == [i \in 1..Len(logs) |-> logs[i].id]

\* C1: whatever the interleaving of the response handlers with the stop
\* signal, the logs of the returned result are exactly the entries whose
\* handlers completed before the signal, in order of completion, and no
\* exchange whose body was still being read when the signal came is among them.
C1_InFlightDropped ==
  (Returned /\ result.success) =>
    /\ IdsOf(result.logs) = doneBeforeSignal
    /\ \A i \in 1..Len(result.logs) : result.logs[i].id \notin inflightAtSignal

C1_Witness ==
  /\ Returned /\ result.success
  /\ inflightAtSignal # {}
  /\ \E i \in 1..Len(capturedLogs) :
       /\ capturedLogs[i].id \in inflightAtSignal
       /\ capturedLogs[i].call = result.call
       /\ capturedLogs[i].readOk

\* C2: when a captureNetworkLogs call has returned, close() has been called
\* exactly once on every page, context and browser it acquired, also when a
\* close() failed, and no handle is ever closed a second time, by a later
\* public cleanup() or otherwise.
C2_ReleasedExactlyOnce ==
  /\ \A k \in Kinds : \A c \in Calls : closeCalls[k][c] <= 1
  /\ result.state \in {"returned", "rejected"} =>
       \A k \in Kinds : result.call \in acquired[k] => closeCalls[k][result.call] = 1

\* C3: a returned result has success = false iff the call failed before
\* capturing started, and success = true iff navigation completed and the
\* stop signal was received, whatever the number of captured exchanges.
C3_SuccessIffSignalled ==
  Returned =>
    /\ result.success <=> reached = "signalled"
    /\ ~result.success <=> reached = "init"

C3_Witness ==
  /\ Returned /\ result.success
  /\ reached = "signalled"
  /\ result.logs = <<>>
  /\ events = 0

\* C4: captureNetworkLogs never rejects; a failure result has success =
\* false, no logs, totalRequests = 0, filteredRequests = 0 and an error; a
\* success result has totalRequests = number of logs and filteredRequests =
\* number of logs flagged isBffBlockApi.
C4_NeverRejects ==
  /\ ~rejected
  /\ result.state # "rejected"
  /\ Returned =>
       IF result.success
       THEN /\ result.totalRequests = Len(result.logs)
            /\ result.filteredRequests =
                 Len(SelectSeq(result.logs, LAMBDA e : e.isBffBlockApi))
       ELSE /\ result.logs = <<>>
            /\ result.totalRequests = 0
            /\ result.filteredRequests = 0
            /\ result.hasError

\* a failed call has returned although a close() of its cleanup failed
C4_Witness ==
  /\ Returned /\ ~result.success
  /\ result.hasError
  /\ context = result.call
  /\ closeCalls["context"][result.call] = 1

\* the exchange an entry of the buffer was built from
ExchangeOf(entry) == Exchanges[entry.ex]

\* C5: every entry of the capture buffer comes from an exchange whose host is
\* allowed, whose content-type contains application/json, whose resource type
\* is fetch or xhr and whose upper-cased method is GET, POST, PUT, PATCH or
\* DELETE; the same holds for the exchanges whose handlers are about to append.
C5_BufferEntriesPassFilter ==
  \A x \in {ExchangeOf(capturedLogs[i]) : i \in 1..Len(capturedLogs)}
             \cup {Exchanges[h.ex] : h \in pending} :
     /\ \/ allowedHosts = <<>>
        \/ \E j \in 1..Len(allowedHosts) : NamesHostOrParent(x.parts, allowedHosts[j])
     /\ x.contentType \in {CtJson, CtJsonCharset}
     /\ x.resourceType \in {"fetch", "xhr"}
     /\ ToUpperCase(x.method) \in AllowedMethods

C5_Witness ==
  /\ allowedHosts # <<>>
  /\ events = MaxResponses
  /\ Len(capturedLogs) = 1
  /\ pending = {}

\* ------------------------------------------------------------------------
\* Further properties of the normalizer (SpecNorm)
\* ------------------------------------------------------------------------
\* a log entry is a block-API exchange: known from the parts of its URL
IsBlockLog(log) ==
  Parseable(log.parts) /\ log.parts.path.hasBlocks /\ log.parts.query.hasKeys

\* the stable partition of a list: block-API entries first, each class in
\* its original order
StablePartition(logs) ==
  SelectSeq(logs, IsBlockLog) \o SelectSeq(logs, LAMBDA l : ~IsBlockLog(l))

\* the first n entries of a list, all of it when n = 0
Capped(s, n) == IF n > 0 /\ n < Len(s) THEN SubSeq(s, 1, n) ELSE s

\* the list that truncation and grouping are expected to work on
Prioritized ==
  IF ncall.options.prioritizeBffApis THEN StablePartition(ncall.logs) ELSE ncall.logs

\* C11: with prioritizeBffApis the list handed to truncation and grouping is
\* the stable partition of the input (block-API exchanges first, original
\* order kept within each class); without it the input order is unchanged.
\* Without merging the output endpoints follow that list one for one.
C11_StablePartition ==
  ncall.op = "processNetworkLogs" =>
    /\ Survivors = Capped(Prioritized, ncall.options.maxApis)
    /\ ~ncall.options.mergeDuplicates =>
         /\ Len(ncall.out.processedData) = Len(Capped(Prioritized, ncall.options.maxApis))
         /\ \A k \in 1..Len(ncall.out.processedData) :
              /\ ncall.out.processedData[k].url = Prioritized[k].url
              /\ ncall.out.processedData[k].responseBody = Prioritized[k].body

\* two non-block exchanges, then two block-API exchanges, all different
C11_Witness ==
  /\ ncall.op = "processNetworkLogs"
  /\ ncall.options.prioritizeBffApis
  /\ ~ncall.options.mergeDuplicates
  /\ ncall.options.maxApis = 0
  /\ Len(ncall.logs) = 3
  /\ ~IsBlockLog(ncall.logs[1])
  /\ IsBlockLog(ncall.logs[2]) /\ IsBlockLog(ncall.logs[3])
  /\ ncall.logs[2] # ncall.logs[3]
  /\ ncall.out.processedData[1].url = ncall.logs[2].url
  /\ ncall.out.processedData[2].url = ncall.logs[3].url
  /\ ncall.out.processedData[3].url = ncall.logs[1].url

\* the exchanges expected to survive the cap
CappedList == Capped(Prioritized, ncall.options.maxApis)

\* endpoint e carries the method, url and body of log l
BuiltFrom(e, l) ==
  /\ e.url = l.url
  /\ e.method = ToUpperCase(l.method)
  /\ e.responseBody = l.body

\* C12: the cap is applied before grouping: every output endpoint comes from
\* one of the first maxApis exchanges of the (possibly reordered) list, every
\* identity occurring among those exchanges has an endpoint in the output,
\* and the output has at most maxApis endpoints; with maxApis = 0 the whole
\* list is used.
C12_TruncationBeforeGrouping ==
  ncall.op = "processNetworkLogs" =>
    LET out == ncall.out.processedData
    IN /\ ncall.options.maxApis > 0 => Len(out) <= ncall.options.maxApis
       /\ \A k \in 1..Len(out) : \E i \in 1..Len(CappedList) : BuiltFrom(out[k], CappedList[i])
       /\ \A i \in 1..Len(CappedList) :
            \E k \in 1..Len(out) : \E j \in 1..Len(CappedList) :
               /\ Identity(CappedList[j]) = Identity(CappedList[i])
               /\ BuiltFrom(out[k], CappedList[j])

C14_NormalizerNeverFails ==
  ncall.op = "processNetworkLogs" =>
    /\ ncall.out.success /\ ~ncall.out.threw /\ ~ncall.out.hasError
    /\ ncall.out.totalLogs = Len(ncall.logs)
    /\ ncall.out.uniqueEndpoints = Len(ncall.out.processedData)
    /\ ncall.logs = <<>> =>
         /\ ncall.out.processedData = <<>>
         /\ ncall.out.bffApiCount = 0
         /\ ncall.out.uniqueEndpoints = 0
    /\ ncall.logs # <<>> => Len(ncall.out.processedData) >= 1
    /\ ~ncall.options.mergeDuplicates =>
         Len(ncall.out.processedData) = Len(CappedList)
    /\ \A i \in 1..Len(CappedList) :
         \E k \in 1..Len(ncall.out.processedData) :
            ncall.out.processedData[k].method = ToUpperCase(CappedList[i].method)

\* an unparseable URL, an unknown method and an empty body in one list, each
\* with its endpoint
C14_Witness ==
  /\ ncall.op = "processNetworkLogs"
  /\ ncall.options.mergeDuplicates
  /\ ncall.options.maxApis = 0
  /\ Len(ncall.logs) = 2
  /\ ~Parseable(ncall.logs[1].parts)
  /\ ncall.logs[2].method = <<"BREW">>
  /\ ncall.logs[2].body = <<>>
  /\ ncall.out.success
  /\ Len(ncall.out.processedData) = 2

\* all identities of a list of exchanges are pairwise distinct
DistinctIdentities(logs) ==
  \A i \in 1..Len(logs) : \A j \in 1..Len(logs) :
     i # j => Identity(logs[i]) # Identity(logs[j])

\* an output endpoint read as an exchange again
AsLog(e) ==
  [method |-> e.method, url |-> e.url, body |-> e.responseBody,
   parts |-> (CHOOSE l \in NormLogs : l.url = e.url).parts]

\* the result of normalizing the output of the last call once more
Renormalized ==
  processNetworkLogs([k \in 1..Len(ncall.out.processedData) |->
                        AsLog(ncall.out.processedData[k])],
                     ncall.options)

SetOf(seq) == {seq[i] : i \in 1..Len(seq)}

\* C17: for a list whose identities are pairwise distinct (and that the cap
\* does not shorten) processNetworkLogs with mergeDuplicates returns one
\* endpoint per exchange, with the method, url and body of that exchange, and
\* normalizing the result again returns the same set of endpoints.
C17_GroupingIdempotent ==
  (/\ ncall.op = "processNetworkLogs"
   /\ ncall.options.mergeDuplicates
   /\ ncall.options.maxApis = 0
   /\ DistinctIdentities(ncall.logs)) =>
    /\ Len(ncall.out.processedData) = Len(ncall.logs)
    /\ \A i \in 1..Len(ncall.logs) :
         \E k \in 1..Len(ncall.out.processedData) :
            BuiltFrom(ncall.out.processedData[k], ncall.logs[i])
    /\ Renormalized.success
    /\ Len(Renormalized.processedData) = Len(ncall.out.processedData)
    /\ SetOf(Renormalized.processedData) = SetOf(ncall.out.processedData)

\* ------------------------------------------------------------------------
\* Properties of the serializer (SpecSer)
\* ------------------------------------------------------------------------
Outcomes == {o \in {scall.first, scall.second} : o.done}

ApiProperties(api) ==
  {api.method, api.url, api.responseBody, api.queryParams, api.pathParams, api.extra}

HasCycle(processedData) ==
  \E i \in 1..Len(processedData) : \E v \in ApiProperties(processedData[i]) : v.kind = "cyclic"

\* C15: whenever an endpoint of the collection holds a circular structure in
\* any of its properties, one beyond the five fields included, serializeForAI
\* throws; it never returns text for such a collection.
C15_CycleFailsLoudly ==
  HasCycle(scall.input) => \A o \in Outcomes : o.ret.threw

\* what does hold: a circular structure in one of the five fields makes the
\* call throw SERIALIZATION_ERROR
C15_CycleInFieldThrows ==
  (\E i \in 1..Len(scall.input) :
     \E v \in ApiProperties(scall.input[i]) \ {scall.input[i].extra} : v.kind = "cyclic")
  => \A o \in Outcomes : o.ret.threw /\ o.ret.error = "SERIALIZATION_ERROR"

\* an input value as JSON.parse would give it back
AsParsed(v) ==
  IF v.kind = "object"
  THEN JsObject([i \in 1..Len(v.members) |->
                   Member(v.members[i].key, JsString(v.members[i].val))])
  ELSE v

\* an endpoint of the input as an object of exactly its five fields, in order
FiveFields(api) ==
  JsObject(<< Member(<<"method">>, AsParsed(api.method)),
              Member(<<"url">>, AsParsed(api.url)),
              Member(<<"responseBody">>, AsParsed(api.responseBody)),
              Member(<<"queryParams">>, AsParsed(api.queryParams)),
              Member(<<"pathParams">>, AsParsed(api.pathParams)) >>)

FieldNames == {<<"method">>, <<"url">>, <<"responseBody">>, <<"queryParams">>, <<"pathParams">>}

KeysOf(obj) == {obj.members[j].key : j \in 1..Len(obj.members)}

IsTyped(processedData) == \A i \in 1..Len(processedData) : processedData[i] \in TypedApis

\* C16: on a collection of endpoints (each of exactly the five fields), a
\* call returns text that parses back to the collection itself, endpoints in
\* input order and fields in the order method, url, responseBody,
\* queryParams, pathParams; a second call on the same collection, at a
\* later time or on another processor, returns the same text.  On any
\* collection, text that is returned names no field but those five, so no
\* timestamp.
C16_PureRoundTrip ==
  /\ \A o \in Outcomes :
       IsTyped(scall.input) =>
         /\ ~o.ret.threw
         /\ JsonParse(o.ret.text).ok
         /\ JsonParse(o.ret.text).val = [i \in 1..Len(scall.input) |-> FiveFields(scall.input[i])]
  /\ \A o \in Outcomes :
       ~o.ret.threw =>
         /\ JsonParse(o.ret.text).ok
         /\ Len(JsonParse(o.ret.text).val) = Len(scall.input)
         /\ \A i \in 1..Len(scall.input) : KeysOf(JsonParse(o.ret.text).val[i]) \subseteq FieldNames
  /\ scall.second.done => scall.second.ret = scall.first.ret

\* two calls at different times on processors of different options, on two
\* different endpoints, one with quotes, backslashes and a line break in its
\* body
C16_Witness ==
  /\ scall.second.done
  /\ scall.second.now # scall.first.now
  /\ scall.second.options # scall.first.options
  /\ IsTyped(scall.input)
  /\ Len(scall.input) = 2
  /\ scall.input[1] # scall.input[2]
  /\ \E i \in 1..2 : scall.input[i].responseBody = JsString(Body_escapes)
  /\ ~scall.first.ret.threw
  /\ scall.second.ret.text = scall.first.ret.text

\* ------------------------------------------------------------------------
\* Properties of the command-line run (SpecCli)
\* ------------------------------------------------------------------------
\* C18: when the capture succeeded with zero exchanges and nothing outside
\* the program fails, the run raises no error and does not exit with a
\* failure status.
C18_EmptyCaptureIsNotAnError ==
  (cli.captured /\ Len(cli.logs) = 0 /\ ~cli.fault) => (cli.exitCode # 1 /\ cli.error = "")

\* what does hold: with at least one exchange and nothing outside the program
\* failing, the run does not exit with a failure status
C18_NonEmptyCaptureCompletes ==
  (cli.captured /\ Len(cli.logs) > 0 /\ ~cli.fault) => cli.exitCode # 1

\* ------------------------------------------------------------------------
\* Properties of a failed capture and of unreadable bodies (Spec)
\* ------------------------------------------------------------------------
\* C19: when initialization or navigation failed, the error field of the
\* returned result is the message of the structured error that was raised,
\* so the result of a navigation failure differs from that of another failure.
C19_ErrorReportsReason ==
  (Returned /\ ~result.success) =>
     /\ result.error = result.raised
     /\ result.raised = NavigationError.message
          => result.error # ErrorMessageOf(BrowserInitError)

\* what does hold: a failed capture returns a result with an error and no logs
C19_FailureHasError ==
  (Returned /\ ~result.success) => (result.hasError /\ result.error # "" /\ result.logs = <<>>)

\* C20: an exchange whose body could not be read has no entry in the buffer.
C20_UnreadableBodyDropped ==
  \A i \in 1..Len(capturedLogs) : capturedLogs[i].readOk

\* what does hold: the entry of an unreadable body carries the empty body,
\* and an entry whose body was read carries that body, empty or not
C20_EntriesCarryBodyRead ==
  \A i \in 1..Len(capturedLogs) :
     capturedLogs[i].body = IF capturedLogs[i].readOk THEN Exchanges[capturedLogs[i].ex].body
                            ELSE <<>>

\* ------------------------------------------------------------------------
\* Further properties of the normalizer's counters (SpecNorm)
\* ------------------------------------------------------------------------
\* C21: with the default options, bffApiCount is the number of input entries
\* that are block-API exchanges, also when they share method, host and path.
C21_BffCountIsInputCount ==
  (ncall.op = "processNetworkLogs" /\ ncall.options = DefaultOptions) =>
     ncall.out.bffApiCount = Cardinality({i \in 1..Len(ncall.logs) : IsBlockLog(ncall.logs[i])})

\* what does hold: with the default options bffApiCount never exceeds that
\* number, and is zero exactly when it is
C21_BffCountAtMostInputCount ==
  (ncall.op = "processNetworkLogs" /\ ncall.options = DefaultOptions) =>
     /\ ncall.out.bffApiCount <= Cardinality({i \in 1..Len(ncall.logs) : IsBlockLog(ncall.logs[i])})
     /\ ncall.out.bffApiCount = 0 <=> \A i \in 1..Len(ncall.logs) : ~IsBlockLog(ncall.logs[i])

\* ------------------------------------------------------------------------
\* Properties of the AI generator (SpecAi, SpecAiLive)
\* ------------------------------------------------------------------------
\* retries made by callGeminiApi during the call: attempts after the first
RetriesMade == IF ai.attempts = 0 THEN 0 ELSE ai.attempts - 1

\* C22: the retryCount of a returned AiGenerationResult is the number of
\* retries callGeminiApi made during the call.
C22_RetryCountIsRetriesMade ==
  ai.result.done => ai.result.retryCount = RetriesMade

\* what does hold: the retryCount of every returned result is 0
C22_RetryCountIsZero ==
  ai.result.done => ai.result.retryCount = 0

\* at most maxRetries + 1 attempts, none without an API key; every attempt
\* before the last one failed; a retry is pending only after a failure with
\* retries left; a call that returned after its last attempt failed made
\* exactly maxRetries + 1 attempts and reports GEMINI_API_ERROR; the promise
\* of generatePostmanCollection is never rejected
AttemptsBounded ==
  /\ ai.attempts <= ai.maxRetries + 1
  /\ ~ai.hasKey => ai.attempts = 0
  /\ ai.attempts > 0 => ai.failures \in {ai.attempts - 1, ai.attempts}
  /\ ai.pc = "generateContent" => ai.failures = ai.attempts - 1
  /\ ai.pc = "retryDelay" => (ai.failures = ai.attempts /\ ai.attempts <= ai.maxRetries)
  /\ (ai.pc = "returned" /\ ai.attempts > 0 /\ ai.failures = ai.attempts)
       => (ai.attempts = ai.maxRetries + 1 /\ ~ai.result.success)
  /\ ai.lastFailure = "GEMINI_API_ERROR"
       <=> (ai.pc = "returned" /\ ai.failures = ai.maxRetries + 1)
  /\ (ai.pc = "returned" /\ ~ai.hasKey /\ ai.lastFailure # "")
       => ai.lastFailure \in {"GEMINI_NOT_INITIALIZED", "PROMPT_TEMPLATE_NOT_FOUND",
                              "EMPTY_PROMPT_TEMPLATE"}
  /\ ~ai.result.threw
  /\ ai.pc = "returned" <=> ai.result.done

C23_PortEntryAllowsHostAndPort ==
  (/\ fcall.op = "isHostAllowed"
   /\ fcall.hosts = <<Str_localhost_3000>>
   /\ Parseable(fcall.url)
   /\ fcall.url.host = HPort)
  => fcall.ret.val

\* what does hold: an entry with a port allows no URL at all
C23_PortEntryAllowsNothing ==
  (fcall.op = "isHostAllowed" /\ fcall.hosts = <<Str_localhost_3000>>) => ~fcall.ret.val

\* ------------------------------------------------------------------------
\* Properties of the default configuration (SpecConfig)
\* ------------------------------------------------------------------------
\* C24: every assignment attempted through defaultConfig, to a field of it or
\* of an object it refers to, throws; defaultConfig keeps its values, and
\* applyDefaultValues keeps applying the original defaults.
C24_DefaultConfigImmutable ==
  /\ cfg.last.done => cfg.last.threw
  /\ cfg.ai = DEFAULT_AI_CONFIG
  /\ cfg.output = DEFAULT_OUTPUT_CONFIG
  /\ cfg.filter = DEFAULT_FILTER_CONFIG
  /\ cfg.loaded.done =>
       cfg.loaded = applyDefaultValues(NoCfg, cfg.loaded.partial)

\* what does hold: an assignment to a property of defaultConfig itself throws
\* and changes nothing
C24_TopLevelFrozen ==
  [][\A field \in {"ai", "output", "filter"} :
       (cfg'.last = [done |-> TRUE, target |-> "defaultConfig", field |-> field,
                     threw |-> TRUE] /\ cfg'.assigns = cfg.assigns + 1)
       => (cfg'.ai = cfg.ai /\ cfg'.output = cfg.output /\ cfg'.filter = cfg.filter)]_vars

\* ------------------------------------------------------------------------
\* Properties of the capture window (Spec)
\* ------------------------------------------------------------------------
\* the response events that made it into the buffer, a result or a handler
RecordedIds ==
  {capturedLogs[i].id : i \in 1..Len(capturedLogs)}
    \cup {result.logs[i].id : i \in 1..Len(result.logs)}
    \cup {h.id : h \in pending}

\* C25: a response observed before navigation has completed or after the
\* stop signal or cleanup is never recorded: every recorded exchange was
\* observed while its call waited for the stop signal; and isCapturing is
\* true only between the completion of navigation and the stop signal of the
\* same call.
C25_AcceptsOnlyWhileCapturing ==
  /\ isCapturing => (pc = "waiting" /\ reached = "capturing" /\ result.call = callNo)
  /\ \A id \in RecordedIds :
       /\ observed[id].at = "waiting"
       /\ observed[id].capturing
  /\ \A id \in 1..Len(observed) :
       observed[id].at # "waiting" => (~observed[id].capturing /\ id \notin RecordedIds)

\* a response arrived while the page was navigating or being closed, the
\* call went on to return, and the response is in no buffer and no result
C25_Witness ==
  /\ Returned /\ result.success
  /\ \E id \in 1..Len(observed) :
       /\ observed[id].at \in {"navigate", "closePage"}
       /\ id \notin RecordedIds

\* ------------------------------------------------------------------------
\* Properties of a reused controller (SpecReuse)
\* ------------------------------------------------------------------------
\* C26: once the stop signal of a call has been handled, no handler
\* registered during that call appends to capturedLogs any more, so the
\* buffer and the result of a later call on the same controller contain only
\* exchanges observed during that later call.
C26_NoLeakBetweenCalls ==
  /\ \A i \in 1..Len(capturedLogs) :
       /\ capturedLogs[i].call = callNo
       /\ capturedLogs[i].id \notin inflightAtSignal
  /\ \A i \in 1..Len(result.logs) : result.logs[i].call = result.call

\* what does hold: the logs of a result never include an exchange whose body
\* was still being read at the stop signal of the call that returned it
C26_ResultExcludesOwnInFlight ==
  \A i \in 1..Len(result.logs) :
    result.logs[i].call = result.call => result.logs[i].id \notin inflightAtSignal

\* ------------------------------------------------------------------------
\* Termination of a capture (SpecLive)
\* ------------------------------------------------------------------------
\* a captureNetworkLogs call has started and has not settled yet
CallRunning == callNo > 0 /\ result.call = callNo /\ result.state \in {"none", "pending"}

\* cleanup() has gone as far as it goes: every handle is released, or close()
\* has been called on the first one that is still held
CleanupRan ==
  /\ pc = "idle" => cleaner = "none"
  /\ page # 0 => closeCalls["page"][page] >= 1
  /\ (page = 0 /\ context # 0) => closeCalls["context"][context] >= 1
  /\ (page = 0 /\ context = 0 /\ browser # 0) => closeCalls["browser"][browser] >= 1

\* C27: provided each browser operation eventually completes or fails and
\* the stop signal eventually arrives, every captureNetworkLogs call
\* eventually returns a result, with cleanup having run; outside the wait for
\* the stop signal a running call or cleanup only ever awaits a browser
\* operation, never a response handler.
C27_CaptureEventuallyReturns ==
  /\ CallRunning ~> Returned
  /\ [](Returned => (CleanupRan /\ ~isCapturing))
  /\ [](pc \notin {"idle", "waiting"} => ENABLED BrowserOperationSettles)

\* a call has returned, cleanup over, while a response handler of that call
\* is still awaiting its body
C27_Witness ==
  /\ Returned /\ result.success
  /\ CleanupRan
  /\ pc = "idle"
  /\ \E h \in pending : h.call = result.call

\* ------------------------------------------------------------------------
\* Properties of the fallback identity (SpecNorm)
\* ------------------------------------------------------------------------
\* C29: with mergeDuplicates, an exchange whose URL cannot be parsed is
\* grouped only with exchanges having the same literal (method, url) pair; it
\* is never in a group with an exchange whose URL parses.
C29_FallbackGroupsOnlyWithItself ==
  (ncall.op = "processNetworkLogs" /\ ncall.options.mergeDuplicates) =>
    LET groups == Groups
    IN \A g \in 1..Len(groups) : \A i, j \in 1..Len(groups[g].logs) :
         ~Parseable(groups[g].logs[i].parts) =>
           /\ ~Parseable(groups[g].logs[j].parts)
           /\ groups[g].logs[j].method = groups[g].logs[i].method
           /\ groups[g].logs[j].url = groups[g].logs[i].url

\* what does hold: the unparseable members of a group share their literal
\* (method, url) pair
C29_UnparseableMembersAlike ==
  (ncall.op = "processNetworkLogs" /\ ncall.options.mergeDuplicates) =>
    LET groups == Groups
    IN \A g \in 1..Len(groups) : \A i, j \in 1..Len(groups[g].logs) :
         (~Parseable(groups[g].logs[i].parts) /\ ~Parseable(groups[g].logs[j].parts)) =>
           /\ groups[g].logs[j].method = groups[g].logs[i].method
           /\ groups[g].logs[j].url = groups[g].logs[i].url

\* ------------------------------------------------------------------------
\* Properties of the Markdown document (SpecDoc)
\* ------------------------------------------------------------------------
\* title of the section line i of the document belongs to
SectionAt(doc, i) ==
  LET heads == {j \in 1..i : doc[j].h = 2}
  IN IF heads = {} THEN <<>> ELSE doc[CHOOSE j \in heads : \A k \in heads : k <= j].text

\* the headings of the given level in the section with the given title
Listed(doc, title, level) ==
  LET at == SelectSeq([i \in 1..Len(doc) |-> i],
                      LAMBDA i : doc[i].h = level /\ SectionAt(doc, i) = title)
  IN [k \in 1..Len(at) |-> doc[at[k]].text]

Occurrences(seq, x) == Cardinality({i \in 1..Len(seq) : seq[i] = x})

\* the number the document reports on its "Total Endpoints: " line
ReportedTotal(doc) ==
  LET at == {i \in 1..Len(doc) : Len(doc[i].text) = 2 /\ doc[i].text[1] = "Total Endpoints: "}
  IN doc[CHOOSE i \in at : TRUE].text[2]

EveryEndpointInOneSection(input, doc) ==
  LET bff == Listed(doc, <<"BFF Block APIs">>, 3)
      regular == Listed(doc, <<"Regular APIs">>, 4)
      headings == [k \in 1..Len(input) |-> EndpointHeading(input[k])]
  IN /\ \A k \in 1..Len(input) :
          /\ Occurrences(bff, headings[k]) + Occurrences(regular, headings[k])
               = Occurrences(headings, headings[k])
          /\ Occurrences(bff, headings[k]) = 0 \/ Occurrences(regular, headings[k]) = 0
     /\ ToString(Len(bff) + Len(regular)) = ReportedTotal(doc)

\* C30: in the Markdown document every endpoint of the input appears in
\* exactly one of the sections 'BFF Block APIs' and 'Regular APIs', for
\* either value of includeBffAnalysis, and the numbers of endpoints listed in
\* the two sections add up to the reported 'Total Endpoints'.
C30_EveryEndpointListedOnce ==
  dcall.ret.success => EveryEndpointInOneSection(dcall.input, dcall.ret.content)

\* what does hold: the same with includeBffAnalysis = true
C30_ListedOnceWithBffAnalysis ==
  (dcall.ret.success /\ dcall.options.includeBffAnalysis) =>
    EveryEndpointInOneSection(dcall.input, dcall.ret.content)

====
